---------------------------- MODULE Spec2Model ----------------------------
(***************************************************************************)
(* A model of the drawing core of the canvas app (src/app.js, class        *)
(* DrawingApp): the pointer router, the lazy brush, the pan/zoom           *)
(* transform, the stroke store with its undo/redo history, clear, the      *)
(* splash-screen gate and the render flag.                                 *)
(*                                                                         *)
(* JavaScript numbers are modelled as exact rationals <<n, d>> (d > 0,     *)
(* lowest terms).  Every method of DrawingApp is an operator from the      *)
(* object's state (a record `t`, the JavaScript `this`) to its state after *)
(* the call; an action is one event handler run to completion.             *)
(*                                                                         *)
(* The service worker (src/sw.js) and the hot-reload server                *)
(* (src/server.js) are one record each, sw and server; their handlers are  *)
(* cut into one action per await.                                          *)
(***************************************************************************)
EXTENDS Integers, Sequences, FiniteSets, TLC

(***************************************************************************)
(* Rational arithmetic (JavaScript Number, exact).                         *)
(***************************************************************************)
Abs(n) == IF n < 0 THEN -n ELSE n

RECURSIVE GCD(_, _)
GCD(a, b) == IF b = 0 THEN a ELSE GCD(b, a % b)

Rat(n, d) ==
    LET g == GCD(Abs(n), Abs(d))
        s == IF d < 0 THEN -1 ELSE 1
    IN  <<(s * n) \div g, (s * d) \div g>>

Num(n) == <<n, 1>>

RAdd(a, b) == Rat(a[1] * b[2] + b[1] * a[2], a[2] * b[2])
RSub(a, b) == Rat(a[1] * b[2] - b[1] * a[2], a[2] * b[2])
RMul(a, b) == Rat(a[1] * b[1], a[2] * b[2])
RDiv(a, b) == Rat(a[1] * b[2], a[2] * b[1])
RLt(a, b)  == a[1] * b[2] < b[1] * a[2]
RLe(a, b)  == a[1] * b[2] <= b[1] * a[2]
RGt(a, b)  == RLt(b, a)
RMax(a, b) == IF RLt(a, b) THEN b ELSE a
RMin(a, b) == IF RLt(b, a) THEN b ELSE a

RECURSIVE SqrtSearch(_, _, _)
SqrtSearch(n, lo, hi) ==
    IF lo >= hi THEN lo
    ELSE LET mid == (lo + hi + 1) \div 2
         IN  IF mid * mid <= n THEN SqrtSearch(n, mid, hi)
                               ELSE SqrtSearch(n, lo, mid - 1)

\* floor of the square root of a natural number
ISqrt(n) == SqrtSearch(n, 0, IF n < 46340 THEN n ELSE 46340)

IsSquare(a) == ISqrt(a[1]) * ISqrt(a[1]) = a[1] /\ ISqrt(a[2]) * ISqrt(a[2]) = a[2]

\* Math.sqrt: exact on squares of rationals; elsewhere the root is
\* irrational and the value is cut to the integer below it.  The
\* specifications below only feed the handlers positions whose distances
\* are squares wherever the root is used beyond a comparison.
RSqrt(a) ==
    IF IsSquare(a) THEN <<ISqrt(a[1]), ISqrt(a[2])>>
    ELSE Num(ISqrt(a[1] \div a[2]))

(***************************************************************************)
(* Points and strokes.                                                     *)
(***************************************************************************)
Pt(x, y) == [x |-> Num(x), y |-> Num(y)]

Null == <<>>
Some(v) == <<v>>

Last(s) == s[Len(s)]
Front(s) == SubSeq(s, 1, Len(s) - 1)

lazyRadius == 15
HistoryCap == 50
lazyEnabled == TRUE

(***************************************************************************)
(* The state of the DrawingApp object, one variable per field.             *)
(***************************************************************************)
VARIABLES
    strokes,                \* this.strokes: the Document
    currentStroke,          \* this.currentStroke: Null or Some(stroke)
    isDirty,                \* this.isDirty
    scale, panX, panY,      \* the transform
    isDrawing,              \* this.isDrawing
    pointers,               \* this.pointers: Map, as a sequence of [id, pos] in insertion order
    lastTwoFingerDistance,
    lastTwoFingerCenter,
    pointerPos, brushPos,   \* lazy brush
    history, historyIndex,  \* undo/redo log and cursor (0-based, -1 = nothing applied)
    clearConfirmMode,
    clearClickInProgress,   \* set for 50 ms after a Clear click got through
    drawingEnabled,
    splashHidden,           \* splashScreen.classList contains 'hidden'
    undoDisabled, redoDisabled, clearDisabled, shareDisabled,  \* toolbar buttons
    enableTimers,           \* pending 300 ms timers of hideSplashScreen
    now,                    \* Date.now()
    zoomSteps,              \* two-finger moves handled so far (bounds the run)
    movedIds,               \* active contacts with a brush update that returned true
    committedIds,           \* active contacts with a stroke committed to the Document
    contacts,               \* identities touching the surface (fingers, pressed mouse)
    last,                   \* what the handler that ran last did (see Report)
    pendingFrames,          \* render callbacks pending with requestAnimationFrame
    sw,                     \* the service worker: its globals, the cache storage, its clients
    server                  \* the hot-reload server: the watched files, its timer, its clients

appVars == <<strokes, currentStroke, isDirty, scale, panX, panY, isDrawing,
             pointers, lastTwoFingerDistance, lastTwoFingerCenter, pointerPos,
             brushPos, history, historyIndex, clearConfirmMode, clearClickInProgress,
             drawingEnabled,
             splashHidden, undoDisabled, redoDisabled, clearDisabled,
             shareDisabled>>

\* the page
pageVars == <<appVars, enableTimers, now, zoomSteps, movedIds, committedIds, contacts,
              last, pendingFrames>>

vars == <<pageVars, sw, server>>

\* the object as a record
This ==
    [strokes |-> strokes, currentStroke |-> currentStroke, isDirty |-> isDirty,
     scale |-> scale, panX |-> panX, panY |-> panY, isDrawing |-> isDrawing,
     pointers |-> pointers, lastTwoFingerDistance |-> lastTwoFingerDistance,
     lastTwoFingerCenter |-> lastTwoFingerCenter, pointerPos |-> pointerPos,
     brushPos |-> brushPos, history |-> history, historyIndex |-> historyIndex,
     clearConfirmMode |-> clearConfirmMode,
     clearClickInProgress |-> clearClickInProgress,
     drawingEnabled |-> drawingEnabled,
     splashHidden |-> splashHidden, undoDisabled |-> undoDisabled,
     redoDisabled |-> redoDisabled, clearDisabled |-> clearDisabled,
     shareDisabled |-> shareDisabled]

\* the object's fields after a handler returned t
Becomes(t) ==
    /\ strokes' = t.strokes
    /\ currentStroke' = t.currentStroke
    /\ isDirty' = t.isDirty
    /\ scale' = t.scale
    /\ panX' = t.panX
    /\ panY' = t.panY
    /\ isDrawing' = t.isDrawing
    /\ pointers' = t.pointers
    /\ lastTwoFingerDistance' = t.lastTwoFingerDistance
    /\ lastTwoFingerCenter' = t.lastTwoFingerCenter
    /\ pointerPos' = t.pointerPos
    /\ brushPos' = t.brushPos
    /\ history' = t.history
    /\ historyIndex' = t.historyIndex
    /\ clearConfirmMode' = t.clearConfirmMode
    /\ clearClickInProgress' = t.clearClickInProgress
    /\ drawingEnabled' = t.drawingEnabled
    /\ splashHidden' = t.splashHidden
    /\ undoDisabled' = t.undoDisabled
    /\ redoDisabled' = t.redoDisabled
    /\ clearDisabled' = t.clearDisabled
    /\ shareDisabled' = t.shareDisabled

(***************************************************************************)
(* Geometry and transform helpers.                                         *)
(***************************************************************************)
MinScale == <<1, 10>>
MaxScale == <<10, 1>>

\* mutant: the pan is taken off after the division
screenToWorld_PanAfter(t, screenPoint) ==
    [x |-> RSub(RDiv(screenPoint.x, t.scale), t.panX),
     y |-> RSub(RDiv(screenPoint.y, t.scale), t.panY)]

screenToWorld(t, screenPoint) ==
    [x |-> RDiv(RSub(screenPoint.x, t.panX), t.scale),
     y |-> RDiv(RSub(screenPoint.y, t.panY), t.scale)]

worldToScreen(t, worldPoint) ==
    [x |-> RAdd(RMul(worldPoint.x, t.scale), t.panX),
     y |-> RAdd(RMul(worldPoint.y, t.scale), t.panY)]

\* the argument of Math.sqrt in getDistance / getTwoFingerDistance
DistanceSquared(p1, p2) ==
    LET dx == RSub(p2.x, p1.x)
        dy == RSub(p2.y, p1.y)
    IN  RAdd(RMul(dx, dx), RMul(dy, dy))

getDistance(p1, p2) == RSqrt(DistanceSquared(p1, p2))

getTwoFingerDistance(p1, p2) == RSqrt(DistanceSquared(p1, p2))

getCenter(p1, p2) ==
    [x |-> RDiv(RAdd(p1.x, p2.x), Num(2)),
     y |-> RDiv(RAdd(p1.y, p2.y), Num(2))]

(***************************************************************************)
(* Lazy brush.  updateLazyBrush returns the object and the boolean the     *)
(* JavaScript method returns.  cos(atan2(dy, dx)) is dx / distance and     *)
(* sin(atan2(dy, dx)) is dy / distance (only used with distance > 15).     *)
(***************************************************************************)
\* mutant: the brush covers only half of the slack
updateLazyBrush_HalfWay(t, newPointerPos, friction) ==
    LET t1 == [t EXCEPT !.pointerPos = newPointerPos]
        distance == getDistance(t1.brushPos, t1.pointerPos)
        cosAngle == RDiv(RSub(t1.pointerPos.x, t1.brushPos.x), distance)
        sinAngle == RDiv(RSub(t1.pointerPos.y, t1.brushPos.y), distance)
        moveDistance == RMul(RSub(distance, Num(lazyRadius)), <<1, 2>>)
    IN  IF RGt(distance, Num(lazyRadius))
        THEN [this |-> [t1 EXCEPT !.brushPos =
                           [x |-> RAdd(t1.brushPos.x, RMul(cosAngle, moveDistance)),
                            y |-> RAdd(t1.brushPos.y, RMul(sinAngle, moveDistance))]],
              ret |-> TRUE]
        ELSE [this |-> t1, ret |-> FALSE]

\* mutant: the brush jumps onto the pointer
updateLazyBrush_Snaps(t, newPointerPos, friction) ==
    LET t1 == [t EXCEPT !.pointerPos = newPointerPos]
    IN  IF RGt(getDistance(t1.brushPos, t1.pointerPos), Num(lazyRadius))
        THEN [this |-> [t1 EXCEPT !.brushPos = newPointerPos], ret |-> TRUE]
        ELSE [this |-> t1, ret |-> FALSE]

updateLazyBrush(t, newPointerPos, friction) ==
    LET t1 == [t EXCEPT !.pointerPos = newPointerPos]
        distance == getDistance(t1.brushPos, t1.pointerPos)
        cosAngle == RDiv(RSub(t1.pointerPos.x, t1.brushPos.x), distance)
        sinAngle == RDiv(RSub(t1.pointerPos.y, t1.brushPos.y), distance)
        slack == RSub(distance, Num(lazyRadius))
        moveDistance == IF RGt(friction, Num(0))
                        THEN RMul(slack, RSub(Num(1), friction))
                        ELSE slack
    IN  IF ~lazyEnabled
        THEN [this |-> [t1 EXCEPT !.brushPos = newPointerPos], ret |-> TRUE]
        ELSE IF RGt(distance, Num(lazyRadius))
        THEN [this |-> [t1 EXCEPT !.brushPos =
                           [x |-> RAdd(t1.brushPos.x, RMul(cosAngle, moveDistance)),
                            y |-> RAdd(t1.brushPos.y, RMul(sinAngle, moveDistance))]],
              ret |-> TRUE]
        ELSE [this |-> t1, ret |-> FALSE]

(***************************************************************************)
(* Toolbar state.                                                          *)
(***************************************************************************)
updateUI(t) ==
    LET splashVisible == ~t.drawingEnabled
    IN  [t EXCEPT !.undoDisabled = t.historyIndex < 0 \/ splashVisible,
                  !.redoDisabled = t.historyIndex >= Len(t.history) - 1 \/ splashVisible,
                  !.clearDisabled = Len(t.strokes) = 0 \/ splashVisible,
                  !.shareDisabled = Len(t.strokes) = 0 \/ splashVisible]

(***************************************************************************)
(* History.  historyIndex is the JavaScript (0-based) index, so the entry  *)
(* under the cursor is history[historyIndex + 1] here.                     *)
(***************************************************************************)
\* mutant: the entry is appended behind the redoable entries
addToHistory_KeepsTail(t, action) ==
    LET pushed == Append(t.history, action)
        index == t.historyIndex + 1
    IN  IF Len(pushed) > HistoryCap
        THEN updateUI([t EXCEPT !.history = Tail(pushed), !.historyIndex = index - 1])
        ELSE updateUI([t EXCEPT !.history = pushed, !.historyIndex = index])

\* mutant: the log is never cut back to the cap
addToHistory_NoCap(t, action) ==
    updateUI([t EXCEPT !.history = Append(SubSeq(t.history, 1, t.historyIndex + 1), action),
                       !.historyIndex = t.historyIndex + 1])

\* mutant: the oldest entry is evicted but the cursor is not moved back
addToHistory_EvictKeepsCursor(t, action) ==
    LET kept == SubSeq(t.history, 1, t.historyIndex + 1)
        pushed == Append(kept, action)
        index == t.historyIndex + 1
    IN  IF Len(pushed) > HistoryCap
        THEN updateUI([t EXCEPT !.history = Tail(pushed), !.historyIndex = index])
        ELSE updateUI([t EXCEPT !.history = pushed, !.historyIndex = index])

addToHistory(t, action) ==
    LET kept == SubSeq(t.history, 1, t.historyIndex + 1)
        pushed == Append(kept, action)
        index == t.historyIndex + 1
    IN  IF Len(pushed) > HistoryCap
        THEN updateUI([t EXCEPT !.history = Tail(pushed), !.historyIndex = index - 1])
        ELSE updateUI([t EXCEPT !.history = pushed, !.historyIndex = index])

\* mutant: undoing also resets the view
undo_ResetsView(t) ==
    IF t.historyIndex >= 0
    THEN updateUI([t EXCEPT !.strokes = IF Len(@) = 0 THEN @ ELSE Front(@),
                            !.historyIndex = @ - 1,
                            !.scale = Num(1), !.panX = Num(0), !.panY = Num(0),
                            !.isDirty = TRUE])
    ELSE t

\* mutant: undo takes the oldest stroke out of the Document
undo_DropsFirst(t) ==
    IF t.historyIndex >= 0
    THEN updateUI([t EXCEPT !.strokes = IF Len(@) = 0 THEN @ ELSE Tail(@),
                            !.historyIndex = @ - 1,
                            !.isDirty = TRUE])
    ELSE t

undo(t) ==
    IF t.historyIndex >= 0
    THEN LET action == t.history[t.historyIndex + 1]
             newStrokes ==
                 IF action.type = "ADD_STROKE"
                 THEN (IF Len(t.strokes) = 0 THEN t.strokes ELSE Front(t.strokes))
                 ELSE IF action.type = "CLEAR" THEN action.previousStrokes
                 ELSE t.strokes
         IN  updateUI([t EXCEPT !.strokes = newStrokes,
                                !.historyIndex = t.historyIndex - 1,
                                !.isDirty = TRUE])
    ELSE t

\* mutant: the stroke is put back at the front of the Document
redo_Unshift(t) ==
    IF t.historyIndex < Len(t.history) - 1
    THEN LET action == t.history[t.historyIndex + 2]
         IN  updateUI([t EXCEPT !.strokes = <<action.stroke>> \o @,
                                !.historyIndex = t.historyIndex + 1,
                                !.isDirty = TRUE])
    ELSE t

redo(t) ==
    IF t.historyIndex < Len(t.history) - 1
    THEN LET index == t.historyIndex + 1
             action == t.history[index + 1]
             newStrokes ==
                 IF action.type = "ADD_STROKE" THEN Append(t.strokes, action.stroke)
                 ELSE IF action.type = "CLEAR" THEN <<>>
                 ELSE t.strokes
         IN  updateUI([t EXCEPT !.strokes = newStrokes,
                                !.historyIndex = index,
                                !.isDirty = TRUE])
    ELSE t

(***************************************************************************)
(* Drawing.                                                                *)
(***************************************************************************)
startDrawing(t, screenPos, timestamp) ==
    IF ~t.drawingEnabled THEN t
    ELSE LET t1 == [updateLazyBrush([t EXCEPT !.isDrawing = TRUE], screenPos, Num(0)).this
                       EXCEPT !.brushPos = screenPos]
             worldPos == screenToWorld(t1, t1.brushPos)
         IN  [t1 EXCEPT !.currentStroke =
                           Some([points |-> <<worldPos>>, timestamp |-> timestamp])]

\* mutant: the point is appended whether or not the brush moved
continueDrawing_AlwaysPush(t, screenPos) ==
    IF ~t.drawingEnabled \/ ~t.isDrawing \/ t.currentStroke = Null THEN t
    ELSE LET t1 == updateLazyBrush(t, screenPos, Num(0)).this
         IN  [t1 EXCEPT !.currentStroke[1].points = Append(@, screenToWorld(t1, t1.brushPos)),
                        !.isDirty = TRUE]

continueDrawing(t, screenPos) ==
    IF ~t.drawingEnabled \/ ~t.isDrawing \/ t.currentStroke = Null THEN t
    ELSE LET r == updateLazyBrush(t, screenPos, Num(0))
             t1 == r.this
             worldPos == screenToWorld(t1, t1.brushPos)
         IN  IF r.ret
             THEN [t1 EXCEPT !.currentStroke[1].points = Append(@, worldPos),
                             !.isDirty = TRUE]
             ELSE t1

\* mutant: a stroke of a single point is committed too
stopDrawing_AnyLength(t) ==
    LET t1 == IF t.isDrawing /\ t.currentStroke # Null
                 /\ Len(t.currentStroke[1].points) > 0
              THEN addToHistory(
                       [t EXCEPT !.strokes = Append(@, t.currentStroke[1])],
                       [type |-> "ADD_STROKE", stroke |-> t.currentStroke[1]])
              ELSE t
    IN  [t1 EXCEPT !.isDrawing = FALSE, !.currentStroke = Null, !.isDirty = TRUE]

stopDrawing(t) ==
    LET t1 == IF t.isDrawing /\ t.currentStroke # Null
                 /\ Len(t.currentStroke[1].points) > 1
              THEN addToHistory(
                       [t EXCEPT !.strokes = Append(@, t.currentStroke[1])],
                       [type |-> "ADD_STROKE", stroke |-> t.currentStroke[1]])
              ELSE t
    IN  [t1 EXCEPT !.isDrawing = FALSE, !.currentStroke = Null, !.isDirty = TRUE]

(***************************************************************************)
(* Two-finger pan and zoom.                                                *)
(***************************************************************************)
Positions(t) == [i \in 1..Len(t.pointers) |-> t.pointers[i].pos]

initializeTwoFingerGesture(t) ==
    LET positions == Positions(t)
    IN  IF Len(positions) = 2
        THEN [t EXCEPT
                 !.lastTwoFingerDistance = getTwoFingerDistance(positions[1], positions[2]),
                 !.lastTwoFingerCenter = getCenter(positions[1], positions[2])]
        ELSE t

\* mutant: zooming in is not limited
handleTwoFingerGesture_NoUpperClamp(t) ==
    LET positions == Positions(t)
        currentDistance == getTwoFingerDistance(positions[1], positions[2])
        currentCenter == getCenter(positions[1], positions[2])
        zoomFactor == RDiv(currentDistance, t.lastTwoFingerDistance)
        clampedScale == RMax(MinScale, RMul(t.scale, zoomFactor))
        actualZoomFactor == RDiv(clampedScale, t.scale)
        panDx == RSub(currentCenter.x, t.lastTwoFingerCenter.x)
        panDy == RSub(currentCenter.y, t.lastTwoFingerCenter.y)
        offsetX == RMul(RSub(t.lastTwoFingerCenter.x, t.panX), RSub(actualZoomFactor, Num(1)))
        offsetY == RMul(RSub(t.lastTwoFingerCenter.y, t.panY), RSub(actualZoomFactor, Num(1)))
        t1 == IF RGt(t.lastTwoFingerDistance, Num(0))
              THEN [t EXCEPT !.scale = clampedScale,
                             !.panX = RAdd(RSub(t.panX, offsetX), panDx),
                             !.panY = RAdd(RSub(t.panY, offsetY), panDy)]
              ELSE t
    IN  IF Len(positions) # 2 THEN t
        ELSE [t1 EXCEPT !.lastTwoFingerDistance = currentDistance,
                        !.lastTwoFingerCenter = currentCenter,
                        !.isDirty = TRUE]

\* mutant: the pan correction uses the zoom factor asked for, not the one
\* applied after clamping
handleTwoFingerGesture_NominalFactor(t) ==
    LET positions == Positions(t)
        currentDistance == getTwoFingerDistance(positions[1], positions[2])
        currentCenter == getCenter(positions[1], positions[2])
        zoomFactor == RDiv(currentDistance, t.lastTwoFingerDistance)
        clampedScale == RMax(MinScale, RMin(MaxScale, RMul(t.scale, zoomFactor)))
        panDx == RSub(currentCenter.x, t.lastTwoFingerCenter.x)
        panDy == RSub(currentCenter.y, t.lastTwoFingerCenter.y)
        offsetX == RMul(RSub(t.lastTwoFingerCenter.x, t.panX), RSub(zoomFactor, Num(1)))
        offsetY == RMul(RSub(t.lastTwoFingerCenter.y, t.panY), RSub(zoomFactor, Num(1)))
        t1 == IF RGt(t.lastTwoFingerDistance, Num(0))
              THEN [t EXCEPT !.scale = clampedScale,
                             !.panX = RAdd(RSub(t.panX, offsetX), panDx),
                             !.panY = RAdd(RSub(t.panY, offsetY), panDy)]
              ELSE t
    IN  IF Len(positions) # 2 THEN t
        ELSE [t1 EXCEPT !.lastTwoFingerDistance = currentDistance,
                        !.lastTwoFingerCenter = currentCenter,
                        !.isDirty = TRUE]

\* mutant: the pan of the fingers is also added to the stored points
handleTwoFingerGesture_MovesPoints(t) ==
    LET positions == Positions(t)
        currentDistance == getTwoFingerDistance(positions[1], positions[2])
        currentCenter == getCenter(positions[1], positions[2])
        zoomFactor == RDiv(currentDistance, t.lastTwoFingerDistance)
        newScale == RMul(t.scale, zoomFactor)
        clampedScale == RMax(MinScale, RMin(MaxScale, newScale))
        actualZoomFactor == RDiv(clampedScale, t.scale)
        panDx == RSub(currentCenter.x, t.lastTwoFingerCenter.x)
        panDy == RSub(currentCenter.y, t.lastTwoFingerCenter.y)
        offsetX == RMul(RSub(t.lastTwoFingerCenter.x, t.panX), RSub(actualZoomFactor, Num(1)))
        offsetY == RMul(RSub(t.lastTwoFingerCenter.y, t.panY), RSub(actualZoomFactor, Num(1)))
        Moved(stroke) ==
            [stroke EXCEPT !.points =
                [i \in 1..Len(stroke.points) |->
                    [x |-> RAdd(stroke.points[i].x, panDx),
                     y |-> RAdd(stroke.points[i].y, panDy)]]]
        t1 == IF RGt(t.lastTwoFingerDistance, Num(0))
              THEN [t EXCEPT !.scale = clampedScale,
                             !.panX = RAdd(RSub(t.panX, offsetX), panDx),
                             !.panY = RAdd(RSub(t.panY, offsetY), panDy),
                             !.strokes = [i \in 1..Len(t.strokes) |-> Moved(t.strokes[i])]]
              ELSE t
    IN  IF Len(positions) # 2 THEN t
        ELSE [t1 EXCEPT !.lastTwoFingerDistance = currentDistance,
                        !.lastTwoFingerCenter = currentCenter,
                        !.isDirty = TRUE]

handleTwoFingerGesture(t) ==
    LET positions == Positions(t)
        currentDistance == getTwoFingerDistance(positions[1], positions[2])
        currentCenter == getCenter(positions[1], positions[2])
        zoomFactor == RDiv(currentDistance, t.lastTwoFingerDistance)
        newScale == RMul(t.scale, zoomFactor)
        clampedScale == RMax(MinScale, RMin(MaxScale, newScale))
        actualZoomFactor == RDiv(clampedScale, t.scale)
        panDx == RSub(currentCenter.x, t.lastTwoFingerCenter.x)
        panDy == RSub(currentCenter.y, t.lastTwoFingerCenter.y)
        zoomCenterX == t.lastTwoFingerCenter.x
        zoomCenterY == t.lastTwoFingerCenter.y
        offsetX == RMul(RSub(zoomCenterX, t.panX), RSub(actualZoomFactor, Num(1)))
        offsetY == RMul(RSub(zoomCenterY, t.panY), RSub(actualZoomFactor, Num(1)))
        t1 == IF RGt(t.lastTwoFingerDistance, Num(0))
              THEN [t EXCEPT !.scale = clampedScale,
                             !.panX = RAdd(RSub(t.panX, offsetX), panDx),
                             !.panY = RAdd(RSub(t.panY, offsetY), panDy)]
              ELSE t
    IN  IF Len(positions) # 2 THEN t
        ELSE [t1 EXCEPT !.lastTwoFingerDistance = currentDistance,
                        !.lastTwoFingerCenter = currentCenter,
                        !.isDirty = TRUE]

(***************************************************************************)
(* Clear.                                                                  *)
(***************************************************************************)
exitClearConfirmMode(t) == updateUI([t EXCEPT !.clearConfirmMode = FALSE])

\* mutant: the history log survives the clear
clear_KeepsHistory(t) ==
    LET t1 == IF Len(t.strokes) > 0
              THEN updateUI([t EXCEPT !.strokes = <<>>,
                                      !.scale = Num(1),
                                      !.panX = Num(0),
                                      !.panY = Num(0),
                                      !.isDirty = TRUE])
              ELSE t
    IN  exitClearConfirmMode(t1)

\* mutant: the clear is logged with a snapshot of the strokes, so that undo
\* can bring them back
clear_Logged(t) ==
    LET t1 == IF Len(t.strokes) > 0
              THEN addToHistory([t EXCEPT !.strokes = <<>>, !.isDirty = TRUE],
                                [type |-> "CLEAR", previousStrokes |-> t.strokes])
              ELSE t
    IN  exitClearConfirmMode(t1)

\* mutant: the reset runs on an empty Document too
clear_Always(t) ==
    exitClearConfirmMode(updateUI([t EXCEPT !.strokes = <<>>,
                                            !.history = <<>>,
                                            !.historyIndex = -1,
                                            !.scale = Num(1),
                                            !.panX = Num(0),
                                            !.panY = Num(0),
                                            !.isDirty = TRUE]))

clear(t) ==
    LET t1 == IF Len(t.strokes) > 0
              THEN updateUI([t EXCEPT !.strokes = <<>>,
                                      !.history = <<>>,
                                      !.historyIndex = -1,
                                      !.scale = Num(1),
                                      !.panX = Num(0),
                                      !.panY = Num(0),
                                      !.isDirty = TRUE])
              ELSE t
    IN  exitClearConfirmMode(t1)

(***************************************************************************)
(* The Clear button: the first click asks for confirmation, the second     *)
(* one clears; a click anywhere else leaves confirm mode.                  *)
(***************************************************************************)
disableOtherButtons(t) ==
    [t EXCEPT !.undoDisabled = TRUE, !.redoDisabled = TRUE, !.shareDisabled = TRUE]

enterClearConfirmMode(t) == disableOtherButtons([t EXCEPT !.clearConfirmMode = TRUE])

\* mutant: every click on Clear clears
handleClearClick_OneStep(t) ==
    IF t.clearClickInProgress THEN t
    ELSE clear([t EXCEPT !.clearClickInProgress = TRUE])

\* the synchronous part; the 50 ms timer it sets is ClearClickTimer below
handleClearClick(t) ==
    IF t.clearClickInProgress THEN t
    ELSE LET t1 == [t EXCEPT !.clearClickInProgress = TRUE]
         IN  IF ~t1.clearConfirmMode THEN enterClearConfirmMode(t1)
             ELSE clear(t1)

\* the method handleClearClick goes on to call
handleClearClickCalls(t) ==
    IF t.clearClickInProgress THEN ""
    ELSE IF ~t.clearConfirmMode THEN "enterClearConfirmMode"
    ELSE "clear"

handleClearClickTimeout(t) == [t EXCEPT !.clearClickInProgress = FALSE]

\* onClearBtn: clearBtn.contains(event.target)
handleOutsideClick(t, onClearBtn) ==
    IF ~t.clearConfirmMode THEN t
    ELSE IF ~onClearBtn THEN exitClearConfirmMode(t)
    ELSE t

(***************************************************************************)
(* Splash screen.                                                          *)
(***************************************************************************)
showSplashScreen(t) == [t EXCEPT !.splashHidden = FALSE, !.drawingEnabled = FALSE]

\* the synchronous part; the 300 ms timer it sets is EnableTimer below
hideSplashScreen(t) == [t EXCEPT !.splashHidden = TRUE]

hideSplashTimeout(t) == [t EXCEPT !.drawingEnabled = TRUE]

(***************************************************************************)
(* The Active Pointer Set (a Map: insertion order, set keeps the place of  *)
(* an existing key).                                                       *)
(***************************************************************************)
PointerIds(ps) == {ps[i].id : i \in 1..Len(ps)}

MapSet(ps, id, pos) ==
    IF id \in PointerIds(ps)
    THEN [i \in 1..Len(ps) |-> IF ps[i].id = id THEN [id |-> id, pos |-> pos] ELSE ps[i]]
    ELSE Append(ps, [id |-> id, pos |-> pos])

MapDelete(ps, id) == SelectSeq(ps, LAMBDA e : e.id # id)

\* mutant: the second finger does not end the stroke of the first
handlePointerDown_NoStop(t, id, pos, timestamp) ==
    LET t1 == [t EXCEPT !.pointers = MapSet(@, id, pos)]
    IN  IF Len(t1.pointers) = 1 THEN startDrawing(t1, pos, timestamp)
        ELSE IF Len(t1.pointers) = 2 THEN initializeTwoFingerGesture(t1)
        ELSE t1

\* mutant: the second finger ends the stroke but the trackers are not set
handlePointerDown_NoTrackers(t, id, pos, timestamp) ==
    LET t1 == [t EXCEPT !.pointers = MapSet(@, id, pos)]
    IN  IF Len(t1.pointers) = 1 THEN startDrawing(t1, pos, timestamp)
        ELSE IF Len(t1.pointers) = 2 THEN stopDrawing(t1)
        ELSE t1

handlePointerDown(t, id, pos, timestamp) ==
    LET t1 == [t EXCEPT !.pointers = MapSet(@, id, pos)]
    IN  IF Len(t1.pointers) = 1 THEN startDrawing(t1, pos, timestamp)
        ELSE IF Len(t1.pointers) = 2 THEN initializeTwoFingerGesture(stopDrawing(t1))
        ELSE t1

\* mutant: with more than two pointers the first two drive the gesture
handlePointerMove_FirstTwo(t, id, pos) ==
    IF id \in PointerIds(t.pointers)
    THEN LET t1 == [t EXCEPT !.pointers = MapSet(@, id, pos)]
         IN  IF Len(t1.pointers) = 1 /\ t1.isDrawing THEN continueDrawing(t1, pos)
             ELSE IF Len(t1.pointers) >= 2
             THEN [handleTwoFingerGesture([t1 EXCEPT !.pointers = SubSeq(@, 1, 2)])
                      EXCEPT !.pointers = t1.pointers]
             ELSE t1
    ELSE t

handlePointerMove(t, id, pos) ==
    IF id \in PointerIds(t.pointers)
    THEN LET t1 == [t EXCEPT !.pointers = MapSet(@, id, pos)]
         IN  IF Len(t1.pointers) = 1 /\ t1.isDrawing THEN continueDrawing(t1, pos)
             ELSE IF Len(t1.pointers) = 2 THEN handleTwoFingerGesture(t1)
             ELSE t1
    ELSE t

\* mutant: lifting one of two fingers does not start a stroke
handlePointerUp_NoRestart(t, id, timestamp) ==
    LET t1 == [t EXCEPT !.pointers = MapDelete(@, id)]
    IN  IF Len(t1.pointers) = 0 THEN stopDrawing(t1)
        ELSE t1

handlePointerUp(t, id, timestamp) ==
    LET t1 == [t EXCEPT !.pointers = MapDelete(@, id)]
    IN  IF Len(t1.pointers) = 0 THEN stopDrawing(t1)
        ELSE IF Len(t1.pointers) = 1
        THEN startDrawing(t1, t1.pointers[1].pos, timestamp)
        ELSE t1

(***************************************************************************)
(* The fallbacks for browsers without pointer events: a touch event calls  *)
(* the pointer handler once for every touch of changedTouches, in order;   *)
(* a mouse event calls it with the identity 'mouse'.                       *)
(***************************************************************************)
\* the pointerId 'mouse', which no touch identifier equals
MouseId == -1

\* one entry of changedTouches (clientX and clientY as one position)
Touch(id, pos) == [identifier |-> id, pos |-> pos]

RECURSIVE handleTouchStart(_, _, _)
handleTouchStart(t, changedTouches, timestamp) ==
    IF changedTouches = <<>> THEN t
    ELSE LET touch == Head(changedTouches)
         IN  handleTouchStart(
                 handlePointerDown(t, touch.identifier, touch.pos, timestamp),
                 Tail(changedTouches), timestamp)

RECURSIVE handleTouchMove(_, _)
handleTouchMove(t, changedTouches) ==
    IF changedTouches = <<>> THEN t
    ELSE LET touch == Head(changedTouches)
         IN  handleTouchMove(handlePointerMove(t, touch.identifier, touch.pos),
                             Tail(changedTouches))

RECURSIVE handleTouchEnd(_, _, _)
handleTouchEnd(t, changedTouches, timestamp) ==
    IF changedTouches = <<>> THEN t
    ELSE LET touch == Head(changedTouches)
         IN  handleTouchEnd(handlePointerUp(t, touch.identifier, timestamp),
                            Tail(changedTouches), timestamp)

handleMouseDown(t, pos, timestamp) == handlePointerDown(t, MouseId, pos, timestamp)

handleMouseMove(t, pos) == handlePointerMove(t, MouseId, pos)

handleMouseUp(t, timestamp) == handlePointerUp(t, MouseId, timestamp)

(***************************************************************************)
(* Rendering: the frame callback paints only when the dirty flag is set    *)
(* and always asks for the next frame.                                     *)
(***************************************************************************)
render(t) == IF ~t.isDirty THEN t ELSE [t EXCEPT !.isDirty = FALSE]

\* What a handler run did, beyond the fields it assigned:
\*   op       "commit", "share", "render", "clearClick", "update" (a call of
\*            updateLazyBrush from outside the handlers), or "" for any
\*            other handler
\*   friction the friction argument of that update
\*   dropped  redoable history entries a commit discarded
\*   notice   the alert() shown ("" = none)
\*   width, height   pixel size of the offscreen bitmap (0 = none allocated)
\*   handed   a file was handed to navigator.share
\*   escaped  an exception left the handler
\*   painted  the strokes a render pass drew after clearing the canvas, in
\*            order (Null = the canvas was not touched)
\*   frames   calls of requestAnimationFrame
\*   called   the method a Clear click went on to call ("" = none)
Report(op) ==
    [op |-> op, dropped |-> 0, friction |-> Num(0), notice |-> "", width |-> 0,
     height |-> 0, handed |-> FALSE, escaped |-> FALSE, painted |-> Null,
     frames |-> 0, called |-> ""]

\* does renderStroke draw this stroke?
renderStroke(stroke) == ~(Len(stroke.points) < 2)

\* mutant: the in-progress stroke is painted from its first point on
renderPass_AnyCurrent(t) ==
    IF ~t.isDirty THEN [Report("render") EXCEPT !.frames = 1]
    ELSE LET current == IF t.currentStroke # Null THEN <<t.currentStroke[1]>> ELSE <<>>
         IN  [Report("render") EXCEPT !.painted = Some(t.strokes \o current),
                                      !.frames = 1]

\* mutant: a pass that finds nothing to paint does not ask for the next frame
renderPass_StopsWhenClean(t) ==
    IF ~t.isDirty THEN Report("render")
    ELSE LET current == IF t.currentStroke # Null /\ Len(t.currentStroke[1].points) > 1
                        THEN <<t.currentStroke[1]>>
                        ELSE <<>>
         IN  [Report("render") EXCEPT
                 !.painted = Some(SelectSeq(t.strokes, renderStroke)
                                      \o SelectSeq(current, renderStroke)),
                 !.frames = 1]

\* what one call of render() does to the canvas and the frame queue
renderPass(t) ==
    IF ~t.isDirty THEN [Report("render") EXCEPT !.frames = 1]
    ELSE LET current == IF t.currentStroke # Null /\ Len(t.currentStroke[1].points) > 1
                        THEN <<t.currentStroke[1]>>
                        ELSE <<>>
         IN  [Report("render") EXCEPT
                 !.painted = Some(SelectSeq(t.strokes, renderStroke)
                                      \o SelectSeq(current, renderStroke)),
                 !.frames = 1]

(***************************************************************************)
(* Export.  share() reads the Document and paints an offscreen canvas; it  *)
(* assigns no field of the object, whatever its outcome.                   *)
(***************************************************************************)
padding == 32
MAX_DIMENSION == 2048
MAX_AREA == MAX_DIMENSION * MAX_DIMENSION

\* the value an assignment to canvas.width / canvas.height keeps: the
\* integer part of a non-negative number
Floor(a) == a[1] \div a[2]

RECURSIVE AllPoints(_)
AllPoints(ss) == IF ss = <<>> THEN <<>> ELSE Head(ss).points \o AllPoints(Tail(ss))

Least(S) == CHOOSE v \in S : \A w \in S : RLe(v, w)
Greatest(S) == CHOOSE v \in S : \A w \in S : RLe(w, v)

calculateBounds(t) ==
    LET pts == AllPoints(t.strokes)
        xs == {pts[i].x : i \in 1..Len(pts)}
        ys == {pts[i].y : i \in 1..Len(pts)}
    IN  [minX |-> Least(xs), minY |-> Least(ys),
         maxX |-> Greatest(xs), maxY |-> Greatest(ys)]

\* The sizes share() computes before it allocates the offscreen canvas.
\* env.dpr is window.devicePixelRatio (0 stands for a missing value).
exportLayout(t, env) ==
    LET bounds == calculateBounds(t)
        width0 == RAdd(RSub(bounds.maxX, bounds.minX), Num(padding * 2))
        height0 == RAdd(RSub(bounds.maxY, bounds.minY), Num(padding * 2))
        currentArea == RMul(width0, height0)
        s0 == IF RGt(currentArea, Num(MAX_AREA))
              THEN RSqrt(RDiv(Num(MAX_AREA), currentArea))
              ELSE Num(1)
        s1 == IF RGt(width0, Num(MAX_DIMENSION))
              THEN RMin(s0, RDiv(Num(MAX_DIMENSION), width0))
              ELSE s0
        scaleFactor == IF RGt(height0, Num(MAX_DIMENSION))
                       THEN RMin(s1, RDiv(Num(MAX_DIMENSION), height0))
                       ELSE s1
        dpr0 == IF env.dpr = Num(0) THEN Num(1) ELSE env.dpr
        dpr == IF RLt(scaleFactor, <<1, 2>>)
               THEN RMax(Num(1), RMul(dpr0, <<1, 2>>))
               ELSE dpr0
        width == RMul(width0, scaleFactor)
        height == RMul(height0, scaleFactor)
    IN  [bounds |-> bounds, scaleFactor |-> scaleFactor, dpr |-> dpr,
         width |-> width, height |-> height,
         canvasWidth |-> Floor(RMul(width, dpr)),
         canvasHeight |-> Floor(RMul(height, dpr))]

\* where share() draws a world point on the export canvas, in the units of
\* width and height: scale(scaleFactor), then translate(-minX + padding /
\* scaleFactor, -minY + padding / scaleFactor)
exportPoint(layout, p) ==
    [x |-> RMul(layout.scaleFactor,
                RAdd(p.x, RAdd(RSub(Num(0), layout.bounds.minX),
                               RDiv(Num(padding), layout.scaleFactor)))),
     y |-> RMul(layout.scaleFactor,
                RAdd(p.y, RAdd(RSub(Num(0), layout.bounds.minY),
                               RDiv(Num(padding), layout.scaleFactor))))]

\* mutant: a missing blob is handed on like any other
toBlobCallback_NoBlobCheck(r, env) ==
    IF env.share \in {"absent", "cannot"} THEN r
    ELSE LET handed == [r EXCEPT !.handed = TRUE]
         IN  IF env.share = "insecure" THEN [handed EXCEPT !.notice = "HttpsRequired"]
             ELSE IF env.share = "noMessage" THEN [handed EXCEPT !.escaped = TRUE]
             ELSE handed

\* The toBlob callback.  It reads and assigns no field of the object, so it
\* is run together with the call that set it up.  env.blob: encoding gave a
\* blob; env.share: "absent" (no navigator.share), "cannot" (canShare
\* refuses files), "resolved", or how navigator.share rejected.
toBlobCallback(r, env) ==
    IF ~env.blob THEN [r EXCEPT !.notice = "ImageFailed"]
    ELSE IF env.share \in {"absent", "cannot"} THEN r
    ELSE LET handed == [r EXCEPT !.handed = TRUE]
         IN  IF env.share = "insecure" THEN [handed EXCEPT !.notice = "HttpsRequired"]
             ELSE IF env.share = "noMessage" THEN [handed EXCEPT !.escaped = TRUE]
             ELSE handed

\* mutant: an export that fails throws the in-progress stroke away
share_DropsStroke(t, env) ==
    LET r == Report("share")
        layout == exportLayout(t, env)
        canvasWidth == IF env.alloc THEN layout.canvasWidth ELSE 0
        canvasHeight == IF env.alloc THEN layout.canvasHeight ELSE 0
    IN  IF Len(t.strokes) = 0
        THEN [this |-> t, report |-> [r EXCEPT !.notice = "NoDrawing"]]
        ELSE IF ~env.ctx \/ canvasWidth = 0 \/ canvasHeight = 0
        THEN [this |-> [t EXCEPT !.currentStroke = Null, !.isDrawing = FALSE],
              report |-> [r EXCEPT !.notice = "PrepareFailed"]]
        ELSE [this |-> t,
              report |-> toBlobCallback([r EXCEPT !.width = canvasWidth,
                                                  !.height = canvasHeight], env)]

\* share() returns the object as it found it, and a report.  env.ctx:
\* getContext('2d') gave a context; env.alloc: the canvas kept the size
\* assigned to it (else it reads back 0).
share(t, env) ==
    LET r == Report("share")
        layout == exportLayout(t, env)
        canvasWidth == IF env.alloc THEN layout.canvasWidth ELSE 0
        canvasHeight == IF env.alloc THEN layout.canvasHeight ELSE 0
    IN  IF Len(t.strokes) = 0
        THEN [this |-> t, report |-> [r EXCEPT !.notice = "NoDrawing"]]
        ELSE IF ~env.ctx \/ canvasWidth = 0 \/ canvasHeight = 0
        THEN [this |-> t, report |-> [r EXCEPT !.notice = "PrepareFailed"]]
        ELSE [this |-> t,
              report |-> toBlobCallback([r EXCEPT !.width = canvasWidth,
                                                  !.height = canvasHeight], env)]

(***************************************************************************)
(* The service worker (sw.js).  A cache name is a sequence of pieces of    *)
(* text, so that startsWith is a comparison of leading pieces.  The fields *)
(* of sw:                                                                  *)
(*   CACHE_VERSION, CACHE_NAME   the two globals (Null until initialised)  *)
(*   caches     the names in the origin's cache storage                    *)
(*   clients    the window clients of the origin                           *)
(*   activate   where the activate handler is: "idle", "fetching" (the     *)
(*              version is awaited), "resolved" (the version is known),    *)
(*              "keys" (caches.keys() and clients.claim() are called),     *)
(*              "cleanup" (the deletions are under way), "done"            *)
(*   deleting   names whose caches.delete() has not resolved yet           *)
(*   claiming   clients.claim() has not resolved yet                       *)
(*   messages   the messages posted to clients                             *)
(*   found      the cache names present when the activate event fired      *)
(*   store      the cached responses, as pairs <<cache name, url>>          *)
(*   handlers   the fetch handler of each request in flight (see           *)
(*              IdleHandler)                                               *)
(*   assignments  how often this worker run assigned CACHE_VERSION         *)
(*   opened     the cache names fetchAndCache passed to caches.open()      *)
(*   written    the status of every response put into a cache              *)
(***************************************************************************)
StartsWith(name, prefix) ==
    Len(prefix) <= Len(name) /\ SubSeq(name, 1, Len(prefix)) = prefix

\* 'canvas-app-'
CachePrefix == <<"canvas-app", "-">>

\* `canvas-app-${CACHE_VERSION}`
CacheNameOf(version) == CachePrefix \o <<version>>

\* The requests the fetch listener handles: same-origin GET requests outside
\* /api/.  Request 1 is a navigation to the app, request 2 asks for a script.
RequestIds == {1, 2}

Request(r) ==
    IF r = 1 THEN [url |-> "./", navigate |-> TRUE]
    ELSE [url |-> "./app.js", navigate |-> FALSE]

\* A fetch handler:
\*   stage   "idle" (no event yet), "version" (initializeCacheVersion awaits
\*           getCurrentVersion), "match" (caches.match is pending),
\*           "network" (fetchAndCache awaits fetch), "done" (it has answered)
\*   cached  what caches.match gave: "unknown", "hit" or "miss"
\*   waited  the handler awaited a fetch from the network before it answered
\*   answer  Null, or Some of the response given to respondWith
\*   refetch the background fetchAndCache: "none", "network", "stored",
\*           "dropped" (a status other than 200), "failed"
IdleHandler ==
    [stage |-> "idle", cached |-> "unknown", waited |-> FALSE, answer |-> Null,
     refetch |-> "none"]

Response(from, status) == Some([from |-> from, status |-> status])


NoWorker ==
    [CACHE_VERSION |-> Null, CACHE_NAME |-> Null, caches |-> {}, clients |-> {},
     activate |-> "idle", deleting |-> {}, claiming |-> FALSE, messages |-> {},
     found |-> {}, store |-> {}, handlers |-> [r \in RequestIds |-> IdleHandler],
     assignments |-> 0, opened |-> {}, written |-> {}]

\* the assignments of initializeCacheVersion once getCurrentVersion resolved
initializeCacheVersion(w, version) ==
    [w EXCEPT !.CACHE_VERSION = Some(version),
              !.CACHE_NAME = Some(CacheNameOf(version))]

\* caches.match(url): a response for the URL in any cache of the origin
cachesMatch(w, url) == \E entry \in w.store : entry[2] = url

\* The fetch listener up to its first await: initializeCacheVersion() is
\* called and awaits getCurrentVersion() when CACHE_VERSION is not set.
fetchListener(w, r) ==
    [w EXCEPT !.handlers[r] =
        [IdleHandler EXCEPT !.stage = IF w.CACHE_VERSION = Null THEN "version" ELSE "match",
                            !.waited = w.CACHE_VERSION = Null]]

\* getCurrentVersion() resolved for the call made by handler r
versionResolved(w, r, version) ==
    [initializeCacheVersion(w, version) EXCEPT
        !.handlers[r].stage = "match",
        !.assignments = @ + 1]

\* caches.match resolved: a cached response is the answer, and fetchAndCache
\* is started without being awaited; otherwise fetchAndCache is the answer
matchResolved(w, r) ==
    IF cachesMatch(w, Request(r).url)
    THEN [w EXCEPT !.handlers[r].cached = "hit",
                   !.handlers[r].answer = Response("cache", 200),
                   !.handlers[r].stage = "done",
                   !.handlers[r].refetch = "network"]
    ELSE [w EXCEPT !.handlers[r].cached = "miss",
                   !.handlers[r].waited = TRUE,
                   !.handlers[r].stage = "network"]

\* fetchAndCache once fetch(request) resolved: a response of status 200 is
\* put into the cache named CACHE_NAME at that moment
fetchAndCache(w, url, status) ==
    IF status = 200
    THEN [w EXCEPT !.caches = @ \cup {w.CACHE_NAME[1]},
                   !.store = @ \cup {<<w.CACHE_NAME[1], url>>},
                   !.opened = @ \cup {w.CACHE_NAME[1]},
                   !.written = @ \cup {status}]
    ELSE w

\* the awaited fetchAndCache returned its response
networkResolved(w, r, status) ==
    [fetchAndCache(w, Request(r).url, status) EXCEPT
        !.handlers[r].answer = Response("network", status),
        !.handlers[r].stage = "done"]

\* the awaited fetchAndCache threw: the catch callback of the listener
networkRejected(w, r) ==
    [w EXCEPT !.handlers[r].stage = "done",
              !.handlers[r].answer =
                  IF Request(r).navigate /\ cachesMatch(w, "./index.html")
                  THEN Response("index", 200)
                  ELSE Response("offline", 503)]

\* the fetchAndCache started in the background returned
refetchResolved(w, r, status) ==
    [fetchAndCache(w, Request(r).url, status) EXCEPT
        !.handlers[r].refetch = IF status = 200 THEN "stored" ELSE "dropped"]

\* the fetchAndCache started in the background threw: .catch(() => {})
refetchRejected(w, r) == [w EXCEPT !.handlers[r].refetch = "failed"]

\* mutant: every cache but the current one is deleted
activateDeletes_AnyPrefix(cacheNames, current) ==
    {cacheName \in cacheNames : Some(cacheName) # current}

\* the caches the activate handler calls caches.delete() for
activateDeletes(cacheNames, current) ==
    {cacheName \in cacheNames :
        StartsWith(cacheName, CachePrefix) /\ Some(cacheName) # current}

\* the message the activate handler posts to a client
UpdatedMessage(client, w) ==
    [client |-> client, type |-> "SW_UPDATED", version |-> w.CACHE_VERSION]

(***************************************************************************)
(* The hot-reload server (server.js).  The fields of server:               *)
(*   disk          the content of each watched file                        *)
(*   fileContents  the Map of recorded contents (Null = no entry)          *)
(*   reloadTimeout the pending 2 s timer: Null, or Some(filepath) of the   *)
(*                 debounceReload call that set it                         *)
(*   clients       the open WebSocket connections                          *)
(*   sent          the clients the timer callback that ran last sent       *)
(*                 'reload' to (Null = it sent nothing, or another handler *)
(*                 ran last)                                               *)
(*   loaded        the file contents as of the last 'reload' broadcast     *)
(***************************************************************************)
\* the files the watcher reports; the first two are read at start-up
InitialFiles == {"index.html", "app.js"}
WatchedFiles == InitialFiles \cup {"sw.js"}

NoServer ==
    [disk |-> [f \in WatchedFiles |-> "a"],
     fileContents |-> [f \in WatchedFiles |-> IF f \in InitialFiles THEN Some("a") ELSE Null],
     reloadTimeout |-> Null,
     clients |-> {},
     sent |-> Null,
     loaded |-> [f \in WatchedFiles |-> "a"]]

\* clearTimeout, then setTimeout: one timer for all files
debounceReload(s, filepath) ==
    [s EXCEPT !.reloadTimeout = Some(filepath), !.sent = Null]

\* the timer callback
debounceReloadTimeout(s) ==
    LET filepath == s.reloadTimeout[1]
        currentContent == Some(s.disk[filepath])
        previousContent == s.fileContents[filepath]
    IN  IF currentContent # previousContent
        THEN [s EXCEPT !.fileContents[filepath] = currentContent,
                       !.reloadTimeout = Null,
                       !.sent = Some(s.clients),
                       !.loaded = s.disk]
        ELSE [s EXCEPT !.reloadTimeout = Null, !.sent = Null]

(***************************************************************************)
(* Actions: one event handler each.  The last conjuncts keep the records   *)
(* of the run (zoomSteps, movedIds, committedIds) up to date.              *)
(***************************************************************************)
\* did this handler run commit a stroke to the Document?
Committed(t) == Len(t.strokes) > Len(strokes)

\* the report of a handler of which nothing needs to be recorded
NoReport == Report("")

\* the report of a contact-down or contact-up that returned t
ContactReport(t) ==
    IF Committed(t)
    THEN [Report("commit") EXCEPT !.dropped = Len(history) - historyIndex - 1]
    ELSE NoReport

\* would continueDrawing's updateLazyBrush call return true for this move?
BrushUpdateMoved(id, pos) ==
    /\ id \in PointerIds(pointers)
    /\ Len(pointers) = 1
    /\ isDrawing /\ drawingEnabled /\ currentStroke # Null
    /\ updateLazyBrush(This, pos, Num(0)).ret

PointerDown(id, pos) ==
    \E t \in {handlePointerDown(This, id, pos, now)} :
        /\ Becomes(t)
        /\ movedIds' = movedIds \ {id}
        /\ committedIds' = (committedIds \ {id}) \cup
                               (IF Committed(t) THEN PointerIds(pointers) ELSE {})
        /\ contacts' = contacts \cup {id}
        /\ last' = ContactReport(t)
        /\ UNCHANGED <<enableTimers, now, zoomSteps, pendingFrames, sw, server>>

PointerMove(id, pos) ==
    \E t \in {handlePointerMove(This, id, pos)} :
        /\ Becomes(t)
        /\ movedIds' = IF BrushUpdateMoved(id, pos) THEN movedIds \cup {id} ELSE movedIds
        /\ zoomSteps' = IF id \in PointerIds(pointers) /\ Len(pointers) = 2
                        THEN zoomSteps + 1 ELSE zoomSteps
        /\ last' = NoReport
        /\ UNCHANGED <<enableTimers, now, committedIds, contacts, pendingFrames, sw, server>>

PointerUp(id) ==
    \E t \in {handlePointerUp(This, id, now)} :
        /\ Becomes(t)
        /\ movedIds' = movedIds \ {id}
        /\ committedIds' = committedIds \ {id}
        /\ contacts' = contacts \ {id}
        /\ last' = ContactReport(t)
        /\ UNCHANGED <<enableTimers, now, zoomSteps, pendingFrames, sw, server>>

Undo ==
    /\ \E t \in {undo(This)} : Becomes(t)
    /\ last' = NoReport
    /\ UNCHANGED <<enableTimers, now, zoomSteps, movedIds, committedIds, contacts, pendingFrames, sw, server>>

Redo ==
    /\ \E t \in {redo(This)} : Becomes(t)
    /\ last' = NoReport
    /\ UNCHANGED <<enableTimers, now, zoomSteps, movedIds, committedIds, contacts, pendingFrames, sw, server>>

Clear ==
    /\ \E t \in {clear(This)} : Becomes(t)
    /\ last' = NoReport
    /\ UNCHANGED <<enableTimers, now, zoomSteps, movedIds, committedIds, contacts, pendingFrames, sw, server>>

\* a frame callback of the display: one pending call of render() runs
Render ==
    /\ pendingFrames > 0
    /\ \E t \in {render(This)} : Becomes(t)
    /\ last' = renderPass(This)
    /\ pendingFrames' = pendingFrames - 1 + last'.frames
    /\ UNCHANGED <<enableTimers, now, zoomSteps, movedIds, committedIds, contacts, sw, server>>

Share(env) ==
    \E r \in {share(This, env)} :
        /\ Becomes(r.this)
        /\ last' = r.report
        /\ UNCHANGED <<enableTimers, now, zoomSteps, movedIds, committedIds, contacts, pendingFrames, sw, server>>

\* updateLazyBrush called on its own, with a friction of the caller's choice
LazyUpdate(pos, friction) ==
    /\ \E t \in {updateLazyBrush(This, pos, friction).this} : Becomes(t)
    /\ last' = [Report("update") EXCEPT !.friction = friction]
    /\ UNCHANGED <<enableTimers, now, zoomSteps, movedIds, committedIds, contacts, pendingFrames, sw, server>>

\* The records of the run while a touch handler goes through changedTouches:
\* s is the object before one call of the pointer handler, t after it.
Records ==
    [movedIds |-> movedIds, committedIds |-> committedIds,
     zoomSteps |-> zoomSteps, last |-> NoReport]

Recorded(g) ==
    /\ movedIds' = g.movedIds
    /\ committedIds' = g.committedIds
    /\ zoomSteps' = g.zoomSteps
    /\ last' = g.last

CommitRecord(g, s, t) ==
    IF Len(t.strokes) > Len(s.strokes)
    THEN [g EXCEPT !.committedIds = @ \cup PointerIds(s.pointers),
                   !.last = [Report("commit") EXCEPT
                                !.dropped = Len(s.history) - s.historyIndex - 1]]
    ELSE g

RECURSIVE TouchStartRecords(_, _, _, _)
TouchStartRecords(g, s, changedTouches, timestamp) ==
    IF changedTouches = <<>> THEN g
    ELSE LET touch == Head(changedTouches)
             t == handlePointerDown(s, touch.identifier, touch.pos, timestamp)
             g1 == [g EXCEPT !.movedIds = @ \ {touch.identifier},
                             !.committedIds = @ \ {touch.identifier}]
         IN  TouchStartRecords(CommitRecord(g1, s, t), t,
                               Tail(changedTouches), timestamp)

RECURSIVE TouchMoveRecords(_, _, _)
TouchMoveRecords(g, s, changedTouches) ==
    IF changedTouches = <<>> THEN g
    ELSE LET touch == Head(changedTouches)
             t == handlePointerMove(s, touch.identifier, touch.pos)
             known == touch.identifier \in PointerIds(s.pointers)
             moved == /\ known
                      /\ Len(s.pointers) = 1
                      /\ s.isDrawing /\ s.drawingEnabled /\ s.currentStroke # Null
                      /\ updateLazyBrush(s, touch.pos, Num(0)).ret
             g1 == [g EXCEPT !.movedIds = IF moved THEN @ \cup {touch.identifier} ELSE @,
                             !.zoomSteps = IF known /\ Len(s.pointers) = 2
                                           THEN @ + 1 ELSE @]
         IN  TouchMoveRecords(g1, t, Tail(changedTouches))

RECURSIVE TouchEndRecords(_, _, _, _)
TouchEndRecords(g, s, changedTouches, timestamp) ==
    IF changedTouches = <<>> THEN g
    ELSE LET touch == Head(changedTouches)
             t == handlePointerUp(s, touch.identifier, timestamp)
             g1 == [g EXCEPT !.movedIds = @ \ {touch.identifier},
                             !.committedIds = @ \ {touch.identifier}]
         IN  TouchEndRecords(
                 IF Len(t.strokes) > Len(s.strokes)
                 THEN [g1 EXCEPT !.last = [Report("commit") EXCEPT
                                  !.dropped = Len(s.history) - s.historyIndex - 1]]
                 ELSE g1,
                 t, Tail(changedTouches), timestamp)

TouchIds(changedTouches) ==
    {changedTouches[i].identifier : i \in 1..Len(changedTouches)}

TouchStart(changedTouches) ==
    \E t \in {handleTouchStart(This, changedTouches, now)} :
        /\ Becomes(t)
        /\ Recorded(TouchStartRecords(Records, This, changedTouches, now))
        /\ contacts' = contacts \cup TouchIds(changedTouches)
        /\ UNCHANGED <<enableTimers, now, pendingFrames, sw, server>>

TouchMove(changedTouches) ==
    \E t \in {handleTouchMove(This, changedTouches)} :
        /\ Becomes(t)
        /\ Recorded(TouchMoveRecords(Records, This, changedTouches))
        /\ UNCHANGED <<enableTimers, now, contacts, pendingFrames, sw, server>>

TouchEnd(changedTouches) ==
    \E t \in {handleTouchEnd(This, changedTouches, now)} :
        /\ Becomes(t)
        /\ Recorded(TouchEndRecords(Records, This, changedTouches, now))
        /\ contacts' = contacts \ TouchIds(changedTouches)
        /\ UNCHANGED <<enableTimers, now, pendingFrames, sw, server>>

\* a touchcancel event: the fingers are gone, and the canvas has no listener
\* for the event
TouchCancel(changedTouches) ==
    /\ contacts' = contacts \ TouchIds(changedTouches)
    /\ last' = NoReport
    /\ UNCHANGED <<appVars, enableTimers, now, zoomSteps, movedIds, committedIds, pendingFrames, sw, server>>

MouseDown(pos) ==
    \E t \in {handleMouseDown(This, pos, now)} :
        /\ Becomes(t)
        /\ Recorded(TouchStartRecords(Records, This, <<Touch(MouseId, pos)>>, now))
        /\ contacts' = contacts \cup {MouseId}
        /\ UNCHANGED <<enableTimers, now, pendingFrames, sw, server>>

MouseMove(pos) ==
    \E t \in {handleMouseMove(This, pos)} :
        /\ Becomes(t)
        /\ Recorded(TouchMoveRecords(Records, This, <<Touch(MouseId, pos)>>))
        /\ UNCHANGED <<enableTimers, now, contacts, pendingFrames, sw, server>>

MouseUp ==
    \E t \in {handleMouseUp(This, now)} :
        /\ Becomes(t)
        /\ Recorded(TouchEndRecords(Records, This, <<Touch(MouseId, Pt(0, 0))>>, now))
        /\ contacts' = contacts \ {MouseId}
        /\ UNCHANGED <<enableTimers, now, pendingFrames, sw, server>>

\* a click on Clear that the button let through
ClearClick ==
    /\ \E t \in {handleClearClick(This)} : Becomes(t)
    /\ last' = [Report("clearClick") EXCEPT !.called = handleClearClickCalls(This)]
    /\ UNCHANGED <<enableTimers, now, zoomSteps, movedIds, committedIds, contacts, pendingFrames, sw, server>>

\* the 50 ms timer of handleClearClick
ClearClickTimer ==
    /\ clearClickInProgress
    /\ \E t \in {handleClearClickTimeout(This)} : Becomes(t)
    /\ last' = NoReport
    /\ UNCHANGED <<enableTimers, now, zoomSteps, movedIds, committedIds, contacts, pendingFrames, sw, server>>

\* the delayed click/touchend listener of confirm mode
OutsideClick(onClearBtn) ==
    /\ \E t \in {handleOutsideClick(This, onClearBtn)} : Becomes(t)
    /\ last' = NoReport
    /\ UNCHANGED <<enableTimers, now, zoomSteps, movedIds, committedIds, contacts, pendingFrames, sw, server>>

ShowSplash ==
    /\ \E t \in {showSplashScreen(This)} : Becomes(t)
    /\ last' = NoReport
    /\ UNCHANGED <<enableTimers, now, zoomSteps, movedIds, committedIds, contacts, pendingFrames, sw, server>>

HideSplash ==
    /\ \E t \in {hideSplashScreen(This)} : Becomes(t)
    /\ enableTimers' = enableTimers + 1
    /\ last' = NoReport
    /\ UNCHANGED <<now, zoomSteps, movedIds, committedIds, contacts, pendingFrames, sw, server>>

EnableTimer ==
    /\ enableTimers > 0
    /\ \E t \in {hideSplashTimeout(This)} : Becomes(t)
    /\ enableTimers' = enableTimers - 1
    /\ last' = NoReport
    /\ UNCHANGED <<now, zoomSteps, movedIds, committedIds, contacts, pendingFrames, sw, server>>

Tick ==
    /\ now' = now + 1
    /\ UNCHANGED <<appVars, enableTimers, zoomSteps, movedIds, committedIds, contacts, last, pendingFrames, sw, server>>

\* The activate event: initializeCacheVersion is called, and awaits the
\* version unless a handler of this worker run has set it before.
ActivateEvent ==
    /\ sw.activate = "idle"
    /\ sw' = [sw EXCEPT !.activate = IF sw.CACHE_VERSION = Null THEN "fetching"
                                     ELSE "resolved",
                        !.found = sw.caches]
    /\ UNCHANGED <<pageVars, server>>

\* getCurrentVersion resolves
VersionFetched(version) ==
    /\ sw.activate = "fetching"
    /\ sw' = [initializeCacheVersion(sw, version) EXCEPT !.activate = "resolved"]
    /\ UNCHANGED <<pageVars, server>>

\* the first then-callback: caches.keys() and clients.claim() are called
ActivateStarts ==
    /\ sw.activate = "resolved"
    /\ sw' = [sw EXCEPT !.activate = "keys", !.claiming = TRUE]
    /\ UNCHANGED <<pageVars, server>>

\* caches.keys() resolves: caches.delete() is called for the old caches
KeysResolved ==
    /\ sw.activate = "keys"
    /\ sw' = [sw EXCEPT !.activate = "cleanup",
                        !.deleting = activateDeletes(sw.caches, sw.CACHE_NAME)]
    /\ UNCHANGED <<pageVars, server>>

\* one caches.delete() resolves
CacheDeleted ==
    \E cacheName \in sw.deleting :
        /\ sw' = [sw EXCEPT !.caches = @ \ {cacheName}, !.deleting = @ \ {cacheName}]
        /\ UNCHANGED <<pageVars, server>>

\* clients.claim() resolves
ClientsClaimed ==
    /\ sw.claiming
    /\ sw' = [sw EXCEPT !.claiming = FALSE]
    /\ UNCHANGED <<pageVars, server>>

\* both Promise.all have resolved: clients.matchAll(), then one message each
ClientsNotified ==
    /\ sw.activate = "cleanup"
    /\ sw.deleting = {}
    /\ ~sw.claiming
    /\ sw' = [sw EXCEPT !.activate = "done",
                        !.messages = @ \cup {UpdatedMessage(c, sw) : c \in sw.clients}]
    /\ UNCHANGED <<pageVars, server>>

\* the watcher's 'change' event: a file was written, with new content or
\* with the content it had
FileChanged(filepath, content) ==
    /\ server' = debounceReload([server EXCEPT !.disk[filepath] = content], filepath)
    /\ UNCHANGED <<pageVars, sw>>

\* the 2 s timer fires
ReloadTimer ==
    /\ server.reloadTimeout # Null
    /\ server' = debounceReloadTimeout(server)
    /\ UNCHANGED <<pageVars, sw>>

\* wss 'connection'
ClientConnects(ws) ==
    /\ ws \notin server.clients
    /\ server' = [server EXCEPT !.clients = @ \cup {ws}, !.sent = Null]
    /\ UNCHANGED <<pageVars, sw>>

\* ws 'close'
ClientCloses(ws) ==
    /\ ws \in server.clients
    /\ server' = [server EXCEPT !.clients = @ \ {ws}, !.sent = Null]
    /\ UNCHANGED <<pageVars, sw>>

\* a fetch event for a request the listener handles
FetchEvent(r) ==
    /\ sw.handlers[r].stage = "idle"
    /\ sw' = fetchListener(sw, r)
    /\ UNCHANGED <<pageVars, server>>

\* getCurrentVersion() resolves for the handler of request r
FetchVersionResolved(r, version) ==
    /\ sw.handlers[r].stage = "version"
    /\ sw' = versionResolved(sw, r, version)
    /\ UNCHANGED <<pageVars, server>>

MatchResolved(r) ==
    /\ sw.handlers[r].stage = "match"
    /\ sw' = matchResolved(sw, r)
    /\ UNCHANGED <<pageVars, server>>

\* fetch(request) resolves with a status
NetworkResolved(r, status) ==
    /\ sw.handlers[r].stage = "network"
    /\ sw' = networkResolved(sw, r, status)
    /\ UNCHANGED <<pageVars, server>>

\* fetch(request) rejects
NetworkRejected(r) ==
    /\ sw.handlers[r].stage = "network"
    /\ sw' = networkRejected(sw, r)
    /\ UNCHANGED <<pageVars, server>>

RefetchResolved(r, status) ==
    /\ sw.handlers[r].refetch = "network"
    /\ sw' = refetchResolved(sw, r, status)
    /\ UNCHANGED <<pageVars, server>>

RefetchRejected(r) ==
    /\ sw.handlers[r].refetch = "network"
    /\ sw' = refetchRejected(sw, r)
    /\ UNCHANGED <<pageVars, server>>

(***************************************************************************)
(* The state after the constructor: nothing drawn, identity transform, the *)
(* toolbar disabled by setupUI, the first render pass done; the splash     *)
(* screen is either shown (first visit) or hidden with its enable timer    *)
(* pending.                                                                *)
(***************************************************************************)
InitPage ==
    /\ strokes = <<>>
    /\ currentStroke = Null
    /\ isDirty = FALSE
    /\ scale = Num(1)
    /\ panX = Num(0)
    /\ panY = Num(0)
    /\ isDrawing = FALSE
    /\ pointers = <<>>
    /\ lastTwoFingerDistance = Num(0)
    /\ lastTwoFingerCenter = Pt(0, 0)
    /\ pointerPos = Pt(0, 0)
    /\ brushPos = Pt(0, 0)
    /\ history = <<>>
    /\ historyIndex = -1
    /\ clearConfirmMode = FALSE
    /\ clearClickInProgress = FALSE
    /\ drawingEnabled = FALSE
    /\ splashHidden \in BOOLEAN
    /\ undoDisabled = TRUE
    /\ redoDisabled = TRUE
    /\ clearDisabled = TRUE
    /\ shareDisabled = TRUE
    /\ enableTimers = IF splashHidden THEN 1 ELSE 0
    /\ now = 0
    /\ zoomSteps = 0
    /\ movedIds = {}
    /\ committedIds = {}
    /\ contacts = {}
    /\ last = NoReport
    /\ pendingFrames = 1

\* the page, with a service worker that has nothing to do
Init == InitPage /\ sw = NoWorker /\ server = NoServer

(***************************************************************************)
(* Inputs and bounds.                                                      *)
(***************************************************************************)
MaxStrokes == 2       \* strokes in the Document before drawing input stops
MaxStrokesAll == 1    \* the same, where every handler runs
MaxPinchSteps == 2    \* two-finger moves in one run of the pinch scripts
MaxPoints == 2        \* points of one stroke
MaxZoomSteps == 1     \* two-finger moves in one run
MaxTimers == 1        \* pending enable timers
MaxClock == 1         \* clock ticks
ExtraStrokes == 1     \* strokes committed beyond the history cap

\* screen positions whose pairwise distances are all integers
\* (0, 20, 280, 300)
PtA == Pt(15, 20)
PtB == Pt(15, 40)
PtF == Pt(15, 320)

\* positions off that line: 15 and 25 px from PtA, 10 px from each other
PtG == Pt(24, 32)
PtH == Pt(30, 40)

\* the positions of the pointers other than id
OtherPositions(id) ==
    {pointers[i].pos : i \in {j \in 1..Len(pointers) : pointers[j].id # id}}

\* the square roots the handler of this event takes are rational
ExactDown(id, pos) ==
    Len(pointers) = 1 => \A q \in OtherPositions(id) : IsSquare(DistanceSquared(q, pos))

ExactMove(id, pos) ==
    /\ (Len(pointers) = 1 /\ isDrawing) => IsSquare(DistanceSquared(brushPos, pos))
    /\ Len(pointers) = 2 => \A q \in OtherPositions(id) : IsSquare(DistanceSquared(q, pos))

\* room for one more stroke (counting the redoable ones, which a redo puts
\* back into the Document) and one more point
CanDraw(maxStrokes) ==
    /\ Len(strokes) + (Len(history) - historyIndex - 1) < maxStrokes
    /\ currentStroke # Null => Len(currentStroke[1].points) < MaxPoints

ContactDown(ids, pts) ==
    \E id \in ids, pos \in pts :
        /\ id \notin PointerIds(pointers)
        /\ ExactDown(id, pos)
        /\ PointerDown(id, pos)

\* a move while one finger is down
DrawMove(ids, pts, maxStrokes) ==
    \E id \in ids, pos \in pts :
        /\ Len(pointers) = 1
        /\ ExactMove(id, pos)
        /\ CanDraw(maxStrokes)
        /\ PointerMove(id, pos)

\* a move while two fingers are down
PinchMove(ids, pts, maxZoomSteps) ==
    \E id \in ids, pos \in pts :
        /\ Len(pointers) = 2
        /\ ExactMove(id, pos)
        /\ zoomSteps < maxZoomSteps
        /\ PointerMove(id, pos)

\* a move while no finger is down (a hovering mouse)
HoverMove(ids, pts) ==
    \E id \in ids, pos \in pts : Len(pointers) = 0 /\ PointerMove(id, pos)

\* a move while three or more fingers are down
CrowdMove(ids, pts) ==
    \E id \in ids, pos \in pts : Len(pointers) >= 3 /\ PointerMove(id, pos)

ContactUp(ids) ==
    \E id \in ids : id \in PointerIds(pointers) /\ PointerUp(id)

StrayUp(ids) ==
    \E id \in ids : id \notin PointerIds(pointers) /\ PointerUp(id)

\* an export in which nothing goes wrong, on a display of pixel ratio 2
PlainShare == [dpr |-> Num(2), ctx |-> TRUE, alloc |-> TRUE, blob |-> TRUE, share |-> "resolved"]

\* the square root share() takes is rational
ExactShare ==
    Len(strokes) > 0 =>
        LET b == calculateBounds(This)
            area == RMul(RAdd(RSub(b.maxX, b.minX), Num(padding * 2)),
                         RAdd(RSub(b.maxY, b.minY), Num(padding * 2)))
        IN  RGt(area, Num(MAX_AREA)) => IsSquare(RDiv(Num(MAX_AREA), area))

ShareWith(envs) == \E env \in envs : ExactShare /\ Share(env)

\* the "Got it" button of the visible splash screen
DismissSplash == ~splashHidden /\ HideSplash

(***************************************************************************)
(* SpecHistory: one contact drawing the same stroke again and again, past  *)
(* the history cap, with undo, redo and clear in between.                  *)
(***************************************************************************)
NextHistory ==
    \/ ContactDown({1}, {PtA})
    \/ DrawMove({1}, {PtB}, HistoryCap + ExtraStrokes)
    \/ ContactUp({1})
    \/ Undo
    \/ Redo
    \/ Clear
    \/ DismissSplash
    \/ EnableTimer

SpecHistory == Init /\ [][NextHistory]_vars

(***************************************************************************)
(* SpecScript: well-formed contact scripts of two identities, run while    *)
(* drawing is enabled, with undo, redo and clear in between.               *)
(***************************************************************************)
NextScript ==
    \/ (drawingEnabled /\ ContactDown({1, 2}, {PtA, PtB}))
    \/ (drawingEnabled /\ DrawMove({1, 2}, {PtA, PtB}, MaxStrokes))
    \/ (drawingEnabled /\ PinchMove({1, 2}, {PtA, PtB}, MaxZoomSteps))
    \/ (drawingEnabled /\ ContactUp({1, 2}))
    \/ Undo
    \/ Redo
    \/ Clear
    \/ DismissSplash
    \/ EnableTimer
    \/ (now < MaxClock /\ Tick)

SpecScript == Init /\ [][NextScript]_vars

(***************************************************************************)
(* SpecGesture: two fingers panning and pinching, far enough to reach both *)
(* ends of the zoom range, over a Document of at most one stroke.          *)
(***************************************************************************)
GesturePts == {PtA, PtB, PtF}

NextGesture ==
    \/ ContactDown({1, 2}, {PtA, PtB})
    \/ DrawMove({1, 2}, {PtB}, MaxStrokesAll)
    \/ PinchMove({1, 2}, GesturePts, MaxPinchSteps)
    \/ ContactUp({1, 2})
    \/ Clear
    \/ DismissSplash
    \/ EnableTimer

SpecGesture == Init /\ [][NextGesture]_vars

(***************************************************************************)
(* SpecBrush: one finger drawing, and updateLazyBrush called with every    *)
(* friction, as long as the brush stays on the half-pixel grid.            *)
(***************************************************************************)
MaxDenominator == 2

BrushPts == {PtA, PtB, PtG, PtH}
Frictions == {Num(0), <<1, 2>>, Num(1)}

\* the square root an update to pos takes is rational
ExactBrush(pos) == IsSquare(DistanceSquared(brushPos, pos))

OnGrid(p) == p.x[2] <= MaxDenominator /\ p.y[2] <= MaxDenominator

BrushUpdate(pts, frictions) ==
    \E pos \in pts, friction \in frictions :
        /\ ExactBrush(pos)
        /\ OnGrid(updateLazyBrush(This, pos, friction).this.brushPos)
        /\ LazyUpdate(pos, friction)

NextBrush ==
    \/ ContactDown({1}, {PtA, PtB})
    \/ DrawMove({1}, BrushPts, MaxStrokesAll)
    \/ ContactUp({1})
    \/ BrushUpdate(BrushPts, Frictions)
    \/ DismissSplash
    \/ EnableTimer

SpecBrush == Init /\ [][NextBrush]_vars

(***************************************************************************)
(* SpecShare: a stroke drawn long, also in a view zoomed out to 0.1 so     *)
(* that it spans thousands of world units, and then exported on displays   *)
(* of several pixel ratios with every way the export can fail.             *)
(***************************************************************************)
PtK == Pt(15, 620)

DevicePixelRatios == {Num(0), Num(1), <<3, 2>>, Num(2), Num(3)}

ShareResults ==
    {"absent", "cannot", "resolved", "AbortError", "NotSupportedError",
     "insecure", "other", "noMessage"}

\* an export in which nothing goes wrong, on every display; and every single
\* thing that can go wrong, on a display of pixel ratio 1
ShareEnvs ==
    {[PlainShare EXCEPT !.dpr = d] : d \in DevicePixelRatios}
        \cup {[PlainShare EXCEPT !.dpr = Num(1), !.ctx = FALSE],
              [PlainShare EXCEPT !.dpr = Num(1), !.alloc = FALSE],
              [PlainShare EXCEPT !.dpr = Num(1), !.blob = FALSE]}
        \cup {[PlainShare EXCEPT !.dpr = Num(1), !.share = r] : r \in ShareResults}

NextShare ==
    \/ ContactDown({1}, {PtA})
    \/ ContactDown({2}, {PtB})
    \/ DrawMove({1}, {PtF, PtK}, MaxStrokesAll)
    \/ PinchMove({2}, {PtA}, MaxZoomSteps)
    \/ ContactUp({1, 2})
    \/ ShareWith(ShareEnvs)
    \/ DismissSplash
    \/ EnableTimer

SpecShare == Init /\ [][NextShare]_vars

(***************************************************************************)
(* SpecFallback: a browser without pointer events.  Two fingers and the    *)
(* mouse, all on one vertical line (so that every distance is rational);   *)
(* a touch event carries one or two touches; the browser may cancel the    *)
(* touches that are down.                                                  *)
(***************************************************************************)
\* the changedTouches lists over these identities and positions
TouchLists(ids, pts) ==
    {<<Touch(id, pos)>> : id \in ids, pos \in pts}
        \cup {<<Touch(ab[1], ab[2]), Touch(ab[3], ab[4])>> :
                  ab \in {c \in ids \X pts \X ids \X pts : c[1] # c[3]}}

\* room for what this touchmove may draw or zoom
CanMove ==
    /\ Len(pointers) = 1 => CanDraw(MaxStrokesAll)
    /\ Len(pointers) = 2 => zoomSteps < MaxZoomSteps

TouchesDown(ids, pts) ==
    \E changedTouches \in TouchLists(ids, pts) :
        /\ TouchIds(changedTouches) \cap contacts = {}
        /\ TouchStart(changedTouches)

TouchesMoved(ids, pts) ==
    \E changedTouches \in TouchLists(ids, pts) :
        /\ TouchIds(changedTouches) \subseteq contacts
        /\ CanMove
        /\ TouchMove(changedTouches)

TouchesUp(ids) ==
    \E changedTouches \in TouchLists(ids, {PtA}) :
        /\ TouchIds(changedTouches) \subseteq contacts
        /\ TouchEnd(changedTouches)

TouchesCancelled(ids) ==
    \E changedTouches \in TouchLists(ids, {PtA}) :
        /\ TouchIds(changedTouches) \subseteq contacts
        /\ TouchCancel(changedTouches)

ButtonDown(pts) == \E pos \in pts : MouseId \notin contacts /\ MouseDown(pos)

ButtonMove(pts) == \E pos \in pts : CanMove /\ MouseMove(pos)

ButtonUp == MouseId \in contacts /\ MouseUp

NextFallback ==
    \/ TouchesDown({1, 2}, {PtA})
    \/ TouchesMoved({1, 2}, {PtB})
    \/ TouchesUp({1, 2})
    \/ TouchesCancelled({1, 2})
    \/ ButtonDown({PtA})
    \/ ButtonMove({PtB})
    \/ ButtonUp
    \/ DismissSplash
    \/ EnableTimer

SpecFallback == Init /\ [][NextFallback]_vars

(***************************************************************************)
(* SpecCrowd: up to three fingers on one vertical line.                    *)
(***************************************************************************)
CrowdIds == {1, 2, 3}

NextCrowd ==
    \/ ContactDown(CrowdIds, {PtA, PtB})
    \/ DrawMove(CrowdIds, {PtB}, MaxStrokesAll)
    \/ PinchMove(CrowdIds, {PtA, PtB}, MaxZoomSteps)
    \/ CrowdMove(CrowdIds, {PtA, PtB})
    \/ ContactUp(CrowdIds)
    \/ DismissSplash
    \/ EnableTimer

SpecCrowd == Init /\ [][NextCrowd]_vars

(***************************************************************************)
(* Spec: every handler of the app, also the events outside a well-formed   *)
(* script: an up for an identity that is not down, the splash screen shown *)
(* or hidden again at any time, frames, the clock.                         *)
(***************************************************************************)
\* the testing shortcuts (Ctrl+Shift+S / Ctrl+Shift+H, canvasSplashTesting)
ForceShowSplash == ShowSplash
ForceHideSplash == enableTimers < MaxTimers /\ HideSplash

Next ==
    \/ ContactDown({1, 2}, {PtA})
    \/ DrawMove({1, 2}, {PtA, PtB}, MaxStrokesAll)
    \/ PinchMove({1, 2}, {PtA, PtB}, MaxZoomSteps)
    \/ HoverMove({1}, {PtA})
    \/ ContactUp({1, 2})
    \/ StrayUp({1, 2})
    \/ Undo
    \/ Redo
    \/ Clear
    \/ Render
    \/ ShareWith({PlainShare})
    \/ ForceShowSplash
    \/ ForceHideSplash
    \/ EnableTimer

Spec == Init /\ [][Next]_vars

(***************************************************************************)
(* SpecToolbar: the app as driven through its buttons.  A button runs its  *)
(* handler only while it is not disabled (protectedHandler); one finger    *)
(* draws; the splash screen can be shown and hidden again at any time.     *)
(***************************************************************************)
UndoButton == ~undoDisabled /\ Undo

RedoButton == ~redoDisabled /\ Redo

ClearButton == ~clearDisabled /\ ClearClick

ShareButton == ~shareDisabled /\ ShareWith({PlainShare})

\* a click or touch that ends outside the Clear button while it asks for
\* confirmation
ClickElsewhere == clearConfirmMode /\ OutsideClick(FALSE)

NextToolbar ==
    \/ ContactDown({1}, {PtA})
    \/ DrawMove({1}, {PtB}, MaxStrokes)
    \/ ContactUp({1})
    \/ UndoButton
    \/ RedoButton
    \/ ClearButton
    \/ ClearClickTimer
    \/ ClickElsewhere
    \/ ShareButton
    \/ ForceShowSplash
    \/ ForceHideSplash
    \/ EnableTimer

SpecToolbar == Init /\ [][NextToolbar]_vars

(***************************************************************************)
(* SpecWorker: one activation of the service worker, from every cache      *)
(* storage over five names, with the version known from the install        *)
(* handler of the same run or fetched anew.                                *)
(***************************************************************************)
Versions == {"v1", "v2"}

CacheNames ==
    {CacheNameOf(v) : v \in Versions}
        \cup {CacheNameOf("v0"), <<"canvas-app", "lication">>, <<"fonts">>}

Clients == {1, 2}

\* a worker about to be activated
InitWorker ==
    /\ InitPage
    /\ server = NoServer
    /\ \E version \in {Null} \cup {Some(v) : v \in Versions},
          cacheNames \in SUBSET CacheNames, clients \in SUBSET Clients :
          sw = [NoWorker EXCEPT
                   !.CACHE_VERSION = version,
                   !.CACHE_NAME = IF version = Null THEN Null
                                  ELSE Some(CacheNameOf(version[1])),
                   !.caches = cacheNames,
                   !.clients = clients]

NextWorker ==
    \/ ActivateEvent
    \/ \E version \in Versions : VersionFetched(version)
    \/ ActivateStarts
    \/ KeysResolved
    \/ CacheDeleted
    \/ ClientsClaimed
    \/ ClientsNotified

SpecWorker == InitWorker /\ [][NextWorker]_vars

(***************************************************************************)
(* SpecFetch: an activated worker that was started anew (its globals are   *)
(* not set) or has its version already, with any part of the app cached    *)
(* under version v1, and two requests arriving in any order while the      *)
(* version, the cache and the network answer as they will.                 *)
(***************************************************************************)
CachedAssets == {"./", "./index.html", "./app.js"}

Statuses == {200, 404}

InitFetch ==
    /\ InitPage
    /\ server = NoServer
    /\ \E version \in {Null, Some("v1")}, urls \in SUBSET CachedAssets :
          sw = [NoWorker EXCEPT
                   !.CACHE_VERSION = version,
                   !.CACHE_NAME = IF version = Null THEN Null
                                  ELSE Some(CacheNameOf(version[1])),
                   !.caches = IF urls = {} THEN {} ELSE {CacheNameOf("v1")},
                   !.store = {<<CacheNameOf("v1"), url>> : url \in urls}]

NextFetch ==
    \/ \E r \in RequestIds : FetchEvent(r)
    \/ \E r \in RequestIds, version \in Versions : FetchVersionResolved(r, version)
    \/ \E r \in RequestIds : MatchResolved(r)
    \/ \E r \in RequestIds, status \in Statuses : NetworkResolved(r, status)
    \/ \E r \in RequestIds : NetworkRejected(r)
    \/ \E r \in RequestIds, status \in Statuses : RefetchResolved(r, status)
    \/ \E r \in RequestIds : RefetchRejected(r)

SpecFetch == InitFetch /\ [][NextFetch]_vars

(***************************************************************************)
(* SpecServer: the hot-reload server with three watched files of two       *)
(* contents each and two browser connections.  The timer, once set, fires  *)
(* unless it is cleared; file events and connections come as they will.    *)
(***************************************************************************)
FileContents == {"a", "b"}

NextServer ==
    \/ \E filepath \in WatchedFiles, content \in FileContents :
           FileChanged(filepath, content)
    \/ ReloadTimer
    \/ \E ws \in Clients : ClientConnects(ws)
    \/ \E ws \in Clients : ClientCloses(ws)

SpecServer == Init /\ [][NextServer]_vars /\ WF_vars(ReloadTimer)

(***************************************************************************)
(* SpecLedger: one finger drawing strokes past the history cap, with undo, *)
(* redo and clear in between.  The strokes run from PtA to PtB until the   *)
(* Document is nearly as long as the cap; from there on every other stroke *)
(* starts at PtB, so that neighbouring entries differ, and undo is also    *)
(* called while a stroke is in progress.                                   *)
(***************************************************************************)
NearCap == Len(strokes) >= HistoryCap - 2

LedgerStart ==
    IF NearCap /\ Len(strokes) % 2 = 1 THEN {PtB} ELSE {PtA}

NextLedger ==
    \/ ContactDown({1}, LedgerStart)
    \/ DrawMove({1}, {PtA, PtB}, HistoryCap + ExtraStrokes)
    \/ ContactUp({1})
    \/ ((currentStroke = Null \/ NearCap) /\ Undo)
    \/ Redo
    \/ Clear
    \/ DismissSplash
    \/ EnableTimer

SpecLedger == Init /\ [][NextLedger]_vars

(***************************************************************************)
(* The claims.                                                             *)
(***************************************************************************)
MaxUndo == 3          \* undo calls in a row tried from one state

\* C1: after any sequence of stroke commits, undo, redo and clear calls,
\* -1 <= historyIndex < history.length and history.length <= 50.
C1_HistoryCursor ==
    /\ -1 <= historyIndex
    /\ historyIndex < Len(history)
    /\ Len(history) <= HistoryCap

\* the cap was exceeded: the Document holds more strokes than the log can
C1_Witness ==
    /\ Len(history) = HistoryCap
    /\ historyIndex = HistoryCap - 1
    /\ Len(strokes) > HistoryCap

RECURSIVE UndoTimes(_, _), RedoTimes(_, _), UndoEffects(_, _)
UndoTimes(t, n) == IF n = 0 THEN t ELSE UndoTimes(undo(t), n - 1)
RedoTimes(t, n) == IF n = 0 THEN t ELSE RedoTimes(redo(t), n - 1)
\* how many of n undo calls take effect
UndoEffects(t, n) ==
    IF n = 0 THEN 0
    ELSE (IF t.historyIndex >= 0 THEN 1 ELSE 0) + UndoEffects(undo(t), n - 1)

\* C2: from every reachable state and for every N, N calls of undo followed
\* by as many redo calls as undo calls took effect give back the Document
\* (same strokes, same order) and the history cursor.
C2_UndoRedoRoundTrip ==
    \A n \in 0..MaxUndo :
        LET back == RedoTimes(UndoTimes(This, n), UndoEffects(This, n))
        IN  /\ back.strokes = strokes
            /\ back.historyIndex = historyIndex

\* two different strokes applied, so two undos and two redos must keep order
C2_Witness ==
    /\ historyIndex >= 1
    /\ Len(strokes) >= 2
    /\ strokes[1] # strokes[2]

HasTwoPoints(stroke) == Len(stroke.points) >= 2

StoredStrokesHaveTwoPoints ==
    /\ \A i \in 1..Len(strokes) : HasTwoPoints(strokes[i])
    /\ \A i \in 1..Len(history) :
           history[i].type = "ADD_STROKE" => HasTwoPoints(history[i].stroke)

\* a step that ends an in-progress stroke of a single point
SinglePointStrokeEnds ==
    /\ currentStroke # Null
    /\ Len(currentStroke[1].points) = 1
    /\ \/ currentStroke' = Null
       \/ pointers' # pointers

\* C3: every stroke in the Document and every stroke a history entry refers
\* to has at least 2 points; a stroke that ends with a single point is
\* discarded and pushes no history entry.
C3_TwoPointStrokes ==
    /\ []StoredStrokesHaveTwoPoints
    /\ [][SinglePointStrokeEnds => UNCHANGED <<strokes, history, historyIndex>>]_vars

\* a tap (down and up without a brush move) ended while the Document holds a stroke
C3_Witness ==
    /\ Len(strokes) >= 1
    /\ Len(history) >= 1
    /\ pointers = <<>>
    /\ currentStroke = Null
    /\ brushPos = pointerPos

\* C4: with drawing enabled, after every event of a well-formed script of at
\* most 2 contacts: 0 pointers - not drawing, no current stroke; 1 pointer -
\* drawing with a current stroke; 2 pointers - not drawing, no current stroke.
C4_RouterMatchesCardinality ==
    drawingEnabled =>
        /\ Len(pointers) = 0 => (~isDrawing /\ currentStroke = Null)
        /\ Len(pointers) = 1 => (isDrawing /\ currentStroke # Null)
        /\ Len(pointers) = 2 => (~isDrawing /\ currentStroke = Null)

\* two fingers down after the first one drew a stroke
C4_Witness ==
    /\ drawingEnabled
    /\ Len(pointers) = 2
    /\ committedIds # {}

ContactEnds(id) ==
    /\ id \in PointerIds(pointers)
    /\ id \notin PointerIds(pointers')

\* a contact event put a new stroke into the Document
StrokeCommitted == pointers' # pointers /\ Len(strokes') > Len(strokes)

\* C5: the stroke of a contact is committed (>= 2 points, one new AddStroke
\* history entry) iff a lazy-brush update of one of its moves returned true;
\* otherwise the Document and the History are as before when the contact ends.
C5_CommitIffMoved ==
    [][ /\ \A id \in {1, 2} :
               ContactEnds(id) =>
                   /\ (id \in committedIds \/ StrokeCommitted) <=> id \in movedIds
                   /\ id \notin movedIds => UNCHANGED <<strokes, history, historyIndex>>
        /\ StrokeCommitted =>
               /\ strokes' = Append(strokes, Last(strokes'))
               /\ HasTwoPoints(Last(strokes'))
               /\ Len(history') = Len(SubSeq(history, 1, historyIndex + 1)) + 1
               /\ historyIndex' = Len(history') - 1
               /\ Last(history') = [type |-> "ADD_STROKE", stroke |-> Last(strokes')]
               /\ movedIds # {}
      ]_vars

\* the first contact moved the brush and its stroke was committed by the second
C5_Witness ==
    /\ Len(pointers) = 2
    /\ 1 \in movedIds
    /\ 1 \in committedIds
    /\ Len(strokes) >= 1

\* C6: in every reachable state 0.1 <= scale <= 10, whatever two-finger
\* gesture events (coincident fingers included) and clear calls occurred.
C6_ScaleInRange == RLe(MinScale, scale) /\ RLe(scale, MaxScale)

\* two pinch moves: one zoomed in somewhere, the last brought the fingers
\* together and the scale to the lower limit
C6_Witness ==
    /\ zoomSteps = MaxPinchSteps
    /\ Len(pointers) = 2
    /\ pointers[1].pos = pointers[2].pos
    /\ scale = MinScale

\* a step in which handleTwoFingerGesture processes a move of one of two fingers
TwoFingerMove == zoomSteps' # zoomSteps

PreviousMidpoint == getCenter(pointers[1].pos, pointers[2].pos)
CurrentMidpoint == getCenter(pointers'[1].pos, pointers'[2].pos)
FingersCoincide == pointers[1].pos = pointers[2].pos

\* the world point under the previous midpoint is drawn at the current one
MidpointAnchored ==
    worldToScreen([scale |-> scale', panX |-> panX', panY |-> panY'],
                  screenToWorld(This, PreviousMidpoint)) = CurrentMidpoint

\* C7 as stated: every two-finger move keeps the world point that was under
\* the previous pinch midpoint under the current pinch midpoint.
C7_EveryMoveAnchored == [][TwoFingerMove => MidpointAnchored]_vars

\* C7: a two-finger move whose fingers were apart at the previous event keeps
\* the world point under the previous midpoint under the current midpoint,
\* also when the scale is clamped; a move whose fingers coincided at the
\* previous event leaves scale and pan as they were.
C7_MoveAnchoredUnlessCoincident ==
    [][ /\ (TwoFingerMove /\ ~FingersCoincide) => MidpointAnchored
        /\ (TwoFingerMove /\ FingersCoincide) => UNCHANGED <<scale, panX, panY>>
      ]_vars

\* a pinch with a moving midpoint was clamped at the upper limit
C7_Witness ==
    /\ zoomSteps >= 1
    /\ scale = MaxScale
    /\ panY # Num(0)
    /\ Len(pointers) = 2
    /\ lastTwoFingerCenter = getCenter(pointers[1].pos, pointers[2].pos)

\* a clear() call on a non-empty Document
ClearsDocument == Len(strokes) > 0 /\ Clear

\* C8: after clear() on a non-empty Document the Document and the history
\* log are empty, historyIndex = -1, scale = 1, panX = panY = 0, and any
\* following undo() or redo() changes nothing.
C8_ClearResetsAll ==
    [][ ClearsDocument =>
            /\ strokes' = <<>>
            /\ history' = <<>>
            /\ historyIndex' = -1
            /\ scale' = Num(1) /\ panX' = Num(0) /\ panY' = Num(0)
            /\ undo(This') = This'
            /\ redo(This') = This'
            /\ redo(undo(This')) = This'
      ]_vars

\* a Document cleared after a pinch had zoomed out: the first finger's stroke
\* was committed when the second came down 20 px away, one pinch move
\* brought the fingers together, and the scale is 1 again
C8_Witness ==
    /\ committedIds # {}
    /\ Len(pointers) = 2
    /\ zoomSteps = 1
    /\ lastTwoFingerDistance = Num(0)
    /\ strokes = <<>>
    /\ history = <<>>
    /\ scale = Num(1)

\* C9 as stated: one undo() directly after clear() restores the strokes the
\* Document held at clear time.
C9_UndoRestoresCleared == [][ClearsDocument => undo(This').strokes = strokes]_vars

NoClearEntry == \A i \in 1..Len(history) : history[i].type # "CLEAR"

\* C9: clear is not undoable: no history entry of type CLEAR is ever
\* created, and after clear() on a non-empty Document no number of undo()
\* calls brings a stroke back.
C9_ClearNotUndoable ==
    /\ []NoClearEntry
    /\ [][ClearsDocument =>
              \A n \in 1..MaxUndo : UndoTimes(This', n).strokes = <<>>]_vars

\* the stroke a finger still down committed is gone from the Document and
\* from the log, and the undo and redo buttons are disabled though drawing
\* is enabled
C9_Witness ==
    /\ committedIds # {}
    /\ strokes = <<>>
    /\ history = <<>>
    /\ historyIndex = -1
    /\ undoDisabled /\ redoDisabled
    /\ drawingEnabled

TransformChanges == <<scale, panX, panY>>' # <<scale, panX, panY>>

\* C10 as stated: scale, panX and panY are changed by the two-finger gesture
\* handler only; contact-down/up, drawing, undo, redo, clear, share and render
\* leave them unchanged.
C10_OnlyGestureChangesTransform == [][TransformChanges => TwoFingerMove]_vars

\* C10: scale, panX and panY are changed only by the two-finger gesture
\* handler and by clear() on a non-empty Document, which puts them back to
\* scale = 1, pan = (0, 0); every other operation leaves them unchanged.
C10_GestureOrClearChangesTransform ==
    [][ TransformChanges =>
            \/ TwoFingerMove
            \/ (ClearsDocument /\ <<scale, panX, panY>>' = <<Num(1), Num(0), Num(0)>>)
      ]_vars

\* a zoomed-out view that outlived the fingers' lift, an undo and a frame
C10_Witness ==
    /\ scale = MinScale
    /\ pointers = <<>>
    /\ strokes = <<>>
    /\ Len(history) = 1
    /\ ~isDirty

\* C11: committing a stroke while redoable entries exist discards the whole
\* redo tail: after the commit historyIndex = history.length - 1, the new
\* AddStroke entry is last, behind the entries that were applied, and
\* redo() is a no-op.
C11_CommitDropsRedoTail ==
    [][ (StrokeCommitted /\ historyIndex < Len(history) - 1) =>
            /\ historyIndex' = Len(history') - 1
            /\ Last(history') = [type |-> "ADD_STROKE", stroke |-> Last(strokes')]
            /\ Front(history') = SubSeq(history, 1, historyIndex + 1)
            /\ redo(This') = This'
      ]_vars

\* the commit that ran last discarded a redoable entry
C11_Witness ==
    /\ last.op = "commit"
    /\ last.dropped >= 1
    /\ historyIndex = Len(history) - 1

\* a commit that finds the log full, with all of its entries applied
CommitOverCap == StrokeCommitted /\ historyIndex + 1 = HistoryCap

Store(t) == <<t.strokes, t.history, t.historyIndex, t.scale, t.panX, t.panY>>

\* C13: undo() with historyIndex < 0, redo() with historyIndex =
\* history.length - 1 and clear() on an empty Document each leave the
\* Document, the history log, the cursor and the transform unchanged.
C13_GuardedNoOps ==
    /\ historyIndex < 0 => Store(undo(This)) = Store(This)
    /\ historyIndex = Len(history) - 1 => Store(redo(This)) = Store(This)
    /\ Len(strokes) = 0 => Store(clear(This)) = Store(This)

\* an empty Document with nothing applied, yet a redoable entry and a
\* zoomed view that a call outside its precondition could destroy
C13_Witness ==
    /\ strokes = <<>>
    /\ historyIndex = -1
    /\ Len(history) >= 1
    /\ scale # Num(1)

Within(brush, pointer) ==
    RLe(DistanceSquared(brush, pointer), Num(lazyRadius * lazyRadius))

WithinRadius == Within(brushPos, pointerPos)

\* C14 as stated: after any lazy-brush update, whatever its friction, and
\* after every stroke start, distance(brushPos, pointerPos) <= lazyRadius.
C14_BrushWithinRadius == WithinRadius

\* a step that assigns the lazy brush state
BrushTouched == <<pointerPos, brushPos>>' # <<pointerPos, brushPos>>

\* the step that led here was an update with a friction above 0
FrictionUpdate == last.op = "update" /\ RGt(last.friction, Num(0))

\* C14: after every stroke start and every lazy-brush update with friction 0
\* (the only friction the app's handlers use), distance(brushPos, pointerPos)
\* <= lazyRadius; an update with friction f > 0 to a pointer at distance
\* d > lazyRadius leaves the brush lazyRadius + (d - lazyRadius) * f away
\* from the pointer, outside the radius.
C14_WithinRadiusAtFrictionZero ==
    [][ /\ (BrushTouched /\ ~FrictionUpdate') => Within(brushPos', pointerPos')
        /\ (BrushTouched /\ FrictionUpdate') =>
               LET d == getDistance(brushPos, pointerPos')
               IN  IF RLe(d, Num(lazyRadius))
                   THEN brushPos' = brushPos
                   ELSE /\ getDistance(brushPos', pointerPos') =
                               RAdd(Num(lazyRadius),
                                    RMul(RSub(d, Num(lazyRadius)), last'.friction))
                        /\ ~Within(brushPos', pointerPos')
      ]_vars

\* an update with friction 0 pulled the brush along a slanted line onto the
\* radius around the pointer
C14_Witness ==
    /\ last.op = "update"
    /\ last.friction = Num(0)
    /\ DistanceSquared(brushPos, pointerPos) = Num(lazyRadius * lazyRadius)
    /\ brushPos.x # pointerPos.x
    /\ brushPos.y # pointerPos.y

\* the state of rest after a contact-down: the brush sits on the pointer
AtRest == isDrawing /\ currentStroke # Null /\ brushPos = pointerPos

\* C15: lazy brush with friction 0, from rest at the contact point: an
\* update at distance d <= lazyRadius leaves brushPos unchanged and returns
\* false; an update at distance d > lazyRadius moves brushPos by exactly
\* d - lazyRadius toward the pointer and returns true.
C15_LazyBrushFromRest ==
    AtRest =>
        \A pos \in BrushPts :
            ExactBrush(pos) =>
                LET u == updateLazyBrush(This, pos, Num(0))
                    d == getDistance(brushPos, pos)
                IN  IF RLe(d, Num(lazyRadius))
                    THEN u.this.brushPos = brushPos /\ ~u.ret
                    ELSE /\ u.ret
                         /\ getDistance(brushPos, u.this.brushPos) =
                                RSub(d, Num(lazyRadius))
                         /\ getDistance(u.this.brushPos, pos) = Num(lazyRadius)

\* the first move of a contact went 25 px along a slanted line: the brush
\* followed by 10 px and the stroke got its second point
C15_Witness ==
    /\ isDrawing
    /\ currentStroke # Null
    /\ Len(currentStroke[1].points) = 2
    /\ currentStroke[1].points[1] = screenToWorld(This, PtA)
    /\ pointerPos = PtH
    /\ brushPos = [x |-> Num(21), y |-> Num(28)]

\* screen and world positions the transform is tried on
RoundTripPts == {Pt(0, 0), PtA, PtH, [x |-> <<-7, 2>>, y |-> <<1, 3>>]}

\* C16: for every point p and every reachable transform, worldToScreen(
\* screenToWorld(p)) = p and screenToWorld(worldToScreen(p)) = p.
C16_CoordinateRoundTrip ==
    \A p \in RoundTripPts :
        /\ worldToScreen(This, screenToWorld(This, p)) = p
        /\ screenToWorld(This, worldToScreen(This, p)) = p

\* a zoomed and panned view, in which the two maps are not the identity
C16_Witness ==
    /\ scale = MaxScale
    /\ panX # Num(0)
    /\ panY # Num(0)
    /\ screenToWorld(This, PtA) # PtA

\* the Document's bounding box plus padding exceeds the limit on one side
Oversized ==
    /\ Len(strokes) > 0
    /\ LET b == calculateBounds(This)
       IN  \/ RGt(RAdd(RSub(b.maxX, b.minX), Num(padding * 2)), Num(MAX_DIMENSION))
           \/ RGt(RAdd(RSub(b.maxY, b.minY), Num(padding * 2)), Num(MAX_DIMENSION))

\* share() ran last and allocated its offscreen bitmap
Exported == last.op = "share" /\ last.width > 0 /\ last.height > 0

\* C17: for a Document whose bounding box plus 32 px padding exceeds 2048 in
\* width or height, the offscreen bitmap share() produces has pixel width
\* and height both <= 2048, for every device pixel ratio.
C17_BitmapWithinLimit ==
    (Exported /\ Oversized) =>
        (last.width <= MAX_DIMENSION /\ last.height <= MAX_DIMENSION)

\* C18: share() ends in a user notice and hands nothing to the sharing
\* collaborator when the Document is empty, when the offscreen bitmap cannot
\* be allocated (context missing or size 0), and when encoding yields no
\* blob; in none of these cases does an exception escape.
C18_ShareFailsGracefully ==
    \A env \in ShareEnvs :
        (Len(strokes) = 0 \/ ~env.ctx \/ ~env.alloc \/ ~env.blob) =>
            LET r == share(This, env).report
            IN  /\ r.notice \in {"NoDrawing", "PrepareFailed", "ImageFailed"}
                /\ ~r.handed
                /\ ~r.escaped

\* an export of a non-empty Document for which encoding gave no blob
C18_Witness ==
    /\ last.op = "share"
    /\ last.notice = "ImageFailed"
    /\ last.width > 0
    /\ Len(strokes) > 0

\* a step that is a call of share()
ShareStep == last'.op = "share"

\* C19: whatever the outcome of an export (success, allocation failure,
\* encoding failure, share rejection, user cancellation), share() leaves the
\* Document, the history log, the cursor, the in-progress stroke and the
\* transform unchanged.
C19_ShareChangesNothing ==
    [][ShareStep =>
           UNCHANGED <<strokes, history, historyIndex, currentStroke,
                       scale, panX, panY>>]_vars

\* an export that failed while a stroke was in progress in a zoomed view
C19_Witness ==
    /\ last.op = "share"
    /\ last.notice = "PrepareFailed"
    /\ currentStroke # Null
    /\ Len(strokes) > 0
    /\ scale # Num(1)

\* C20: on the pointer-event path and on the touch/mouse fallback alike, the
\* identities in the Active Pointer Set are exactly the contacts that are
\* down: every up and every cancel removes the entry.
C20_PointerSetTracksContacts == PointerIds(pointers) = contacts

\* the identities a stray up can carry
StrayIds == {1, 2}

\* C21: a contact-up or contact-cancel for an identity that is not in the
\* Active Pointer Set changes neither the Active Pointer Set, the in-progress
\* stroke, the Document nor the History.
C21_StrayUpAbsorbed ==
    \A id \in StrayIds \ PointerIds(pointers) :
        LET t == handlePointerUp(This, id, now)
        IN  /\ t.pointers = pointers
            /\ t.currentStroke = currentStroke
            /\ t.strokes = strokes
            /\ t.history = history
            /\ t.historyIndex = historyIndex


\* the object with only the first two observed pointers in the set
FirstTwo == [This EXCEPT !.pointers = SubSeq(@, 1, 2)]

\* C22 (as stated): with 3 or more contacts the router behaves as with 2:
\* a move of one of the first two observed contacts drives pan and zoom as
\* it would with only these two in the Active Pointer Set.
C22_FirstTwoDriveGesture ==
    Len(pointers) >= 3 =>
        \A id \in PointerIds(FirstTwo.pointers), pos \in {PtA, PtB} :
            LET all == handlePointerMove(This, id, pos)
                two == handlePointerMove(FirstTwo, id, pos)
            IN  /\ all.scale = two.scale
                /\ all.panX = two.panX
                /\ all.panY = two.panY
                /\ all.lastTwoFingerDistance = two.lastTwoFingerDistance
                /\ all.lastTwoFingerCenter = two.lastTwoFingerCenter

\* C22 (amended): while 3 or more contacts are down, every contact is
\* tracked in the Active Pointer Set but no event takes part in gesture math
\* or drawing: scale, pan, the two-finger trackers, the in-progress stroke
\* and the Document stay as they are.
C22_CrowdFreezesGesture ==
    [][(Len(pointers) >= 3 /\ Len(pointers') >= 3) =>
           /\ UNCHANGED <<scale, panX, panY, lastTwoFingerDistance,
                          lastTwoFingerCenter, currentStroke, isDrawing, strokes>>
           /\ PointerIds(pointers') = PointerIds(pointers)]_vars

\* three fingers down, and the first two no longer where the trackers saw them
C22_Witness ==
    /\ Len(pointers) = 3
    /\ drawingEnabled
    /\ getTwoFingerDistance(pointers[1].pos, pointers[2].pos) # lastTwoFingerDistance
    /\ pointers[3].pos = PtB


Committable ==
    isDrawing /\ currentStroke # Null /\ Len(currentStroke[1].points) >= 2

\* C24: when a second contact goes down during Drawing, the in-progress
\* stroke is committed (if it has >= 2 points) or discarded (otherwise),
\* Drawing ends, the two-finger trackers are set to the distance and midpoint
\* of the two active pointers, and neither scale nor pan changes.
C24_SecondContactEndsDrawing ==
    [][(Len(pointers) = 1 /\ Len(pointers') = 2) =>
           /\ strokes' = IF Committable THEN Append(strokes, currentStroke[1])
                         ELSE strokes
           /\ currentStroke' = Null
           /\ ~isDrawing'
           /\ lastTwoFingerDistance' =
                  getTwoFingerDistance(pointers'[1].pos, pointers'[2].pos)
           /\ lastTwoFingerCenter' = getCenter(pointers'[1].pos, pointers'[2].pos)
           /\ UNCHANGED <<scale, panX, panY>>]_vars

\* the second finger has just gone down and committed the first one's stroke
C24_Witness ==
    /\ Len(pointers) = 2
    /\ pointers[1].id \in committedIds
    /\ last.op = "commit"
    /\ Len(strokes) > 0
    /\ RGt(lastTwoFingerDistance, Num(0))


\* a step that is one run of the frame callback
RenderStep == last'.op = "render"

\* C25: a render callback paints iff the dirty flag is set when it runs:
\* with the flag clear it draws nothing and changes no state, with the flag
\* set it repaints all committed strokes plus the in-progress stroke (only
\* if that has >= 2 points) and leaves the flag clear; in both cases it
\* schedules the next frame callback.
C25_RenderIffDirty ==
    [][RenderStep =>
           /\ ~isDirty => (last'.painted = Null /\ UNCHANGED appVars)
           /\ isDirty =>
                  /\ last'.painted =
                         Some(IF currentStroke # Null
                                 /\ Len(currentStroke[1].points) >= 2
                              THEN Append(strokes, currentStroke[1])
                              ELSE strokes)
                  /\ ~isDirty'
           /\ last'.frames = 1]_vars

\* a pass that painted a committed stroke and left out a one-point stroke
\* in progress
C25_Witness ==
    /\ last.op = "render"
    /\ last.painted # Null
    /\ Len(last.painted[1]) = 1
    /\ currentStroke # Null
    /\ ~isDirty


\* C26: in every reachable state with drawing enabled and clear-confirm mode
\* off, Undo is enabled iff historyIndex >= 0, Redo is enabled iff
\* historyIndex < history.length - 1, and Clear and Share are enabled iff the
\* Document is non-empty.
C26_ToolbarMirrorsStore ==
    (drawingEnabled /\ ~clearConfirmMode) =>
        /\ ~undoDisabled <=> historyIndex >= 0
        /\ ~redoDisabled <=> historyIndex < Len(history) - 1
        /\ ~clearDisabled <=> Len(strokes) > 0
        /\ ~shareDisabled <=> Len(strokes) > 0


\* C27: every handleTwoFingerGesture step leaves the Document's strokes and
\* their world-space points, the history log and the cursor unchanged.
C27_GestureKeepsGeometry ==
    [][TwoFingerMove => UNCHANGED <<strokes, history, historyIndex>>]_vars

\* a pinch that zoomed and panned the view of a non-empty Document
C27_Witness ==
    /\ zoomSteps >= 1
    /\ Len(pointers) = 2
    /\ Len(strokes) > 0
    /\ scale # Num(1)
    /\ panY # Num(0)


\* a step that is a click on Clear which the button let through
ClearClickStep == last'.op = "clearClick"

\* C28: a Clear activation while clearConfirmMode is false only enters
\* confirm mode and leaves Document, History and transform unchanged; clear()
\* runs only on a Clear activation that arrives while clearConfirmMode is
\* true, and when clear() returns clearConfirmMode is false.
C28_ClearTwoStep ==
    [][ClearClickStep =>
           /\ ~clearConfirmMode =>
                  /\ last'.called # "clear"
                  /\ UNCHANGED <<strokes, history, historyIndex, scale, panX, panY>>
           /\ (~clearConfirmMode /\ ~clearClickInProgress) =>
                  /\ last'.called = "enterClearConfirmMode"
                  /\ clearConfirmMode'
           /\ last'.called = "clear" => (clearConfirmMode /\ ~clearConfirmMode')
           /\ (strokes' = <<>> /\ strokes # <<>>) => last'.called = "clear"]_vars

\* the second click has cleared the Document
C28_Witness ==
    /\ last.op = "clearClick"
    /\ last.called = "clear"
    /\ strokes = <<>>
    /\ history = <<>>
    /\ ~clearConfirmMode
    /\ clearDisabled


\* C29: whenever the splash screen is visible (drawingEnabled is false), the
\* Undo, Redo, Clear and Share buttons are all disabled.
C29_SplashDisablesToolbar ==
    ~drawingEnabled =>
        (undoDisabled /\ redoDisabled /\ clearDisabled /\ shareDisabled)

\* the activate handler left no old cache of the app behind
OldCachesGone ==
    \A cacheName \in sw.caches :
        StartsWith(cacheName, CachePrefix) => Some(cacheName) = sw.CACHE_NAME

\* C30: when the activate handler completes, every cache whose name starts
\* with 'canvas-app-' other than the current CACHE_NAME has been deleted,
\* caches with other prefixes are untouched, and only afterwards are clients
\* sent the SW_UPDATED message carrying the current version.
C30_ActivateCleansThenNotifies ==
    /\ sw.activate = "done" => OldCachesGone
    /\ \A cacheName \in sw.found :
           ~StartsWith(cacheName, CachePrefix) => cacheName \in sw.caches
    /\ sw.messages # {} => (OldCachesGone /\ sw.deleting = {})
    /\ \A m \in sw.messages :
           m.type = "SW_UPDATED" /\ m.version = sw.CACHE_VERSION
    /\ sw.activate = "done" => {m.client : m \in sw.messages} = sw.clients

\* an activation that found an old cache, the current one and two foreign
\* ones, and told two clients
C30_Witness ==
    /\ sw.activate = "done"
    /\ sw.found = CacheNames \ {CacheNameOf("v2")}
    /\ sw.caches = {CacheNameOf("v1"), <<"canvas-app", "lication">>, <<"fonts">>}
    /\ Cardinality(sw.messages) = 2


C38_ConfirmModeKeepsDisabled ==
    clearConfirmMode => (undoDisabled /\ redoDisabled /\ shareDisabled)


\* C35: drawingEnabled is true only while the splash screen is hidden: a
\* visible splash screen implies drawingEnabled = false.
C35_VisibleSplashBlocksDrawing ==
    ~splashHidden => ~drawingEnabled


\* C34: whenever a two-finger move applies a zoom factor and pan delta, the
\* trackers lastTwoFingerDistance and lastTwoFingerCenter hold the distance
\* and midpoint of the two pointers in the Active Pointer Set, as of their
\* previous event.
C34_TrackersFollowActivePair ==
    [][(TwoFingerMove /\ RGt(lastTwoFingerDistance, Num(0))) =>
           /\ lastTwoFingerDistance =
                  getTwoFingerDistance(pointers[1].pos, pointers[2].pos)
           /\ lastTwoFingerCenter = getCenter(pointers[1].pos, pointers[2].pos)]_vars


\* C36: the render loop never stops and never multiplies: from the end of
\* the constructor on, exactly one render callback is pending with the
\* display-frame scheduler, whatever input events and undo/redo/clear calls
\* occur.
C36_OneRenderPending == pendingFrames = 1

\* a pass that painted after an undo emptied the Document, with a contact down
C36_Witness ==
    /\ last.op = "render"
    /\ last.painted = Some(<<>>)
    /\ Len(history) > 0
    /\ Len(pointers) > 0


\* what a render pass would put on the canvas: the strokes it draws, in
\* order, and the transform it draws them under
VisibleContent(doc, current, s, px, py) ==
    [strokes |-> SelectSeq(doc, renderStroke)
                     \o (IF current # Null /\ Len(current[1].points) > 1
                         THEN <<current[1]>> ELSE <<>>),
     scale |-> s, panX |-> px, panY |-> py]

\* C37: whenever the visible content (the committed strokes, the in-progress
\* stroke if it has >= 2 points, or the transform) differs from what the
\* last render pass painted, the dirty flag is set: the flag is cleared by
\* render passes only, and every step that changes the visible content
\* leaves it set.
C37_ChangeSetsDirty ==
    [][/\ (isDirty /\ ~isDirty') => RenderStep
       /\ (VisibleContent(strokes', currentStroke', scale', panX', panY')
               # VisibleContent(strokes, currentStroke, scale, panX, panY))
           => isDirty']_vars


\* C39: in an export, every stroke point of the Document is mapped inside
\* the exported image rectangle [0, width] x [0, height] with at least the
\* padding kept on all four sides, for every scale-down factor.
C39_ExportKeepsPadding ==
    (Len(strokes) > 0 /\ ExactShare) =>
        LET layout == exportLayout(This, PlainShare)
            pts == AllPoints(strokes)
        IN  \A i \in 1..Len(pts) :
                LET q == exportPoint(layout, pts[i])
                IN  /\ RLe(Num(padding), q.x)
                    /\ RLe(q.x, RSub(layout.width, Num(padding)))
                    /\ RLe(Num(padding), q.y)
                    /\ RLe(q.y, RSub(layout.height, Num(padding)))


\* the content of the file on disk is not the content the clients were last
\* told to load
Stale(filepath) == server.disk[filepath] # server.loaded[filepath]

\* C32: every change to the content of a watched file is eventually followed
\* by a 'reload' message to every connected open client.
C32_ChangeLeadsToReload ==
    \A filepath \in WatchedFiles : Stale(filepath) ~> ~Stale(filepath)


\* C40: within one service-worker lifetime CACHE_VERSION and CACHE_NAME are
\* assigned at most once, and all handlers calling initializeCacheVersion
\* read and write the same cache name.
C40_VersionAssignedOnce ==
    /\ sw.assignments <= 1
    /\ Cardinality(sw.opened) <= 1


\* C31: for an intercepted request the worker answers from the cache
\* whenever a cached response exists, without waiting for the network, and
\* starts a background refetch whose failure does not affect the answer;
\* only when no cached response exists does it answer from the network, and
\* only network responses with status 200 are written to the cache.
C31_CacheFirst ==
    /\ \A r \in RequestIds :
           LET h == sw.handlers[r]
           IN  /\ h.cached = "hit" =>
                      /\ h.answer = Response("cache", 200)
                      /\ ~h.waited
                      /\ h.refetch # "none"
               /\ (h.answer # Null /\ h.answer[1].from = "network") => h.cached = "miss"
    /\ sw.written \subseteq {200}

=============================================================================
